---- MODULE Spec2Model ----
(***************************************************************************)
(* A state-machine model of the Domination game engine                     *)
(* (src/domination/core.py) and of the match orchestration that consumes   *)
(* it (src/appengine/dominationgame/models.py).                            *)
(*                                                                         *)
(* Lengths are integers (game units).  Angles are counted in quarter turns *)
(* (1 = pi/2), so that cos and sin take the exact values -1, 0, 1.         *)
(* Wall-clock durations are small naturals compared with think_time.       *)
(***************************************************************************)
EXTENDS Integers, Sequences, FiniteSets, TLC

(***************************************************************************)
(* Program constants (core.py 42-52, 125-132)                              *)
(***************************************************************************)
TEAM_RED == 0
TEAM_BLUE == 1
TEAM_NEUTRAL == 2

CAPTURE_MODE_NEUTRAL == 0
CAPTURE_MODE_FIRST == 1
CAPTURE_MODE_MAJORITY == 2

ENDGAME_NONE == 0
ENDGAME_SCORE == 1
ENDGAME_CRUMBS == 2

STATE_NEW == 0
STATE_READY == 1
STATE_RUNNING == 2
STATE_INTERRUPT == 3
STATE_ENDED == 4

(***************************************************************************)
(* Bounds of the model                                                     *)
(***************************************************************************)
\* largest max_steps a match is configured with
MaxSteps == 2
\* largest |max_score| and |field_width| handed to the Settings constructor
MaxArg == 6
\* Game.SIMULATION_SUBSTEPS (10 in the source) scaled down: physics substeps per step
Substeps == 2

(***************************************************************************)
(* Integer helpers                                                         *)
(***************************************************************************)
Min(a, b) == IF a < b THEN a ELSE b
Max(a, b) == IF a < b THEN b ELSE a
Abs(a) == IF a < 0 THEN -a ELSE a

\* Python's a % 2 (the result has the sign of the divisor, so it is 0 or 1)
PyMod2(a) == IF a >= 0 THEN a % 2 ELSE (2 - ((-a) % 2)) % 2

\* Python 2's integer a / 2 (floor division)
PyDiv2(a) == (a - PyMod2(a)) \div 2

\* Python's a & b on the two flag bits of end_condition
BitAnd(a, b) == (((a % 2) * (b % 2))) + 2 * ((((a \div 2) % 2) * ((b \div 2) % 2)))

(***************************************************************************)
(* Settings (core.py 58-97)                                                *)
(***************************************************************************)
\* a faulty variant of Settings.__init__ that lacks the check of max_score
Settings__init__unchecked_score(a) ==
    IF PyMod2(a.field_width) = 0 THEN [exc |-> "Exception", self |-> a]
    ELSE [exc |-> "None", self |-> a]

\* Settings.__init__: exc names the exception raised ("None" when the
\* constructor returns), self is the object constructed
Settings__init__(a) ==
    IF PyMod2(a.max_score) # 0 THEN [exc |-> "Exception", self |-> a]
    ELSE IF PyMod2(a.field_width) = 0 THEN [exc |-> "Exception", self |-> a]
    ELSE [exc |-> "None", self |-> a]

\* the keyword arguments every match of the model is configured with; the
\* ones a match varies are overridden with EXCEPT
BaseArgs ==
    [ max_steps |-> MaxSteps, max_score |-> 2, max_turn |-> 1, max_speed |-> 2,
      field_known |-> TRUE, ammo_rate |-> 1, ammo_amount |-> 2, spawn_time |-> 1,
      field_width |-> 5, think_time |-> 1,
      capture_mode |-> CAPTURE_MODE_NEUTRAL, end_condition |-> ENDGAME_SCORE ]

(***************************************************************************)
(* Field (core.py 731-815) and the game objects built from it              *)
(***************************************************************************)
\* Sizes of the object classes (their SIZE attributes)
TankSIZE == 16
ControlPointSIZE == 24
AmmoSIZE == 16
FountainSIZE == 16
TankSpawnSIZE == 16

\* A hand-made one-row field: red spawn | control point | ammo fountain |
\* blue spawn | wall.  Tiles are (column, row); wallrects are (x, y, w, h).
TestField ==
    [ width |-> 5, height |-> 1, tilesize |-> 16,
      walls |-> << <<0, 0, 0, 0, 1>> >>,
      wallrects |-> << <<64, 0, 16, 16>> >>,
      controlpoints |-> << <<1, 0>> >>,
      spawns_red |-> << <<0, 0, 0>> >>,
      spawns_blue |-> << <<3, 0, -2>> >>,
      other_objects |-> << <<2, 0, "AmmoFountain">> >> ]

\* the same field without spawn points: a match without tanks
EmptyField == [TestField EXCEPT !.spawns_red = <<>>, !.spawns_blue = <<>>]

\* Angles of the field are quarter turns: 0 faces +x, -2 (that is -pi) faces -x
\* Class attributes of the GameObject subclasses (core.py 1022-1023, 1163-1167,
\* 1172-1173, 1224-1226, 1275-1277, 1334-1335), by class name
Solid(kind) == kind \in {"Tank", "Wall"}
Movable(kind) == kind = "Tank"
Physical(kind) == kind \in {"Tank", "Wall", "ControlPoint", "Ammo"}

\* ControlPoint.__init__ (core.py 1171-1175)
ControlPoint(x, y) == [x |-> x, y |-> y, team |-> TEAM_NEUTRAL, collided |-> <<0, 0, 0>>]

\* TankSpawn.__init__ (core.py 1333-1337)
TankSpawn(x, y, angle, team) == [x |-> x, y |-> y, angle |-> angle, team |-> team]

\* Ammo.__init__ (core.py 1223-1227); parent is the index of the spawning fountain
Ammo(x, y, parent) == [x |-> x, y |-> y, pickedup |-> FALSE, parent |-> parent]

\* Fountain.__init__ (core.py 1274-1280)
Fountain(x, y) == [x |-> x, y |-> y, countdown |-> -1, children |-> <<>>]

\* Field.get_objects (core.py 795-815): fresh objects on every call
get_objects(f) ==
    LET ts == f.tilesize
        ofsC == PyDiv2(ts - ControlPointSIZE)
        ofsS == PyDiv2(ts - TankSpawnSIZE)
        ofsF == PyDiv2(ts - FountainSIZE)
    IN [ walls |-> f.wallrects,
         cps |-> [i \in DOMAIN f.controlpoints |->
                    ControlPoint(f.controlpoints[i][1] * ts + ofsC,
                                 f.controlpoints[i][2] * ts + ofsC)],
         reds |-> [i \in DOMAIN f.spawns_red |->
                    TankSpawn(f.spawns_red[i][1] * ts + ofsS, f.spawns_red[i][2] * ts + ofsS,
                              f.spawns_red[i][3], TEAM_RED)],
         blues |-> [i \in DOMAIN f.spawns_blue |->
                    TankSpawn(f.spawns_blue[i][1] * ts + ofsS, f.spawns_blue[i][2] * ts + ofsS,
                              f.spawns_blue[i][3], TEAM_BLUE)],
         other |-> [i \in DOMAIN f.other_objects |->
                    Fountain(f.other_objects[i][1] * ts + ofsF,
                             f.other_objects[i][2] * ts + ofsF)] ]

\* GameStats.__init__ (core.py 106-114); score is kept as the fraction <<num, den>>
GameStats ==
    [ score_red |-> 0, score_blue |-> 0, score |-> <<0, 1>>, steps |-> 0,
      crumbs_red |-> 0, crumbs_blue |-> 0, ammo_red |-> 0, ammo_blue |-> 0 ]

(***************************************************************************)
(* State                                                                   *)
(***************************************************************************)
VARIABLES
    ctor,                   \* a call of the Settings constructor: arguments and outcome
    gen,                    \* a call of FieldGenerator.generate(): position, field, half map
    sep,                    \* a call of Game.compute_separation: the two objects, the result
    phys,                   \* a call of Game.substep: objects, lists, position in the loop
    entity,                 \* the match as Game.play of the web application stores it
    io,                     \* a call of str(field) and of Field.from_string on its result
    field,                  \* Game.field
    settings,               \* Game.settings
    record,                 \* Game.record
    replay,                 \* Game.replay: None or a ReplayData
    state,                  \* Game.state
    interrupted,            \* Game.interrupted
    step,                   \* Game.step
    score_red,              \* Game.score_red
    score_blue,             \* Game.score_blue
    stats,                  \* Game.stats
    agent_raised_exception, \* Game.agent_raised_exception
    objects,                \* Game.objects: object ids <<class, index>> in list order
    broadphase_mov,         \* Game.broadphase_mov
    broadphase_stat,        \* Game.broadphase_stat
    tanks,                  \* Game.tanks: the Tank objects, reds first
    controlpoints,          \* Game.controlpoints: the ControlPoint objects
    fountains,              \* the AmmoFountain objects
    ammos,                  \* every Ammo object created so far
    log,                    \* the messages passed to Game.log
    pc,                     \* position of the caller in run() / setup() / end()
    ti,                     \* index of the tank a per-tank loop is at
    sub,                    \* number of substeps done in the current step
    exc,                    \* the exception that left run(), "None" if none did
    hist,                   \* what happened to each tank in the current step (for the claims)
    trace,                  \* what the run did so far (for the claims, not program state)
    env                     \* what the surroundings of the engine may do in this run

gameVars ==
    << field, settings, record, replay, state, interrupted, step, score_red, score_blue,
       stats, agent_raised_exception, objects, broadphase_mov, broadphase_stat, tanks,
       controlpoints, fountains, ammos, log, pc, ti, sub, exc, hist >>

vars == << ctor, gen, sep, phys, entity, io, env, trace, gameVars >>

(***************************************************************************)
(* Sequences                                                               *)
(***************************************************************************)
Range(s) == {s[i] : i \in DOMAIN s}

\* s without its first occurrence of e (list.remove)
Remove(s, e) ==
    IF e \notin Range(s) THEN s
    ELSE LET k == CHOOSE i \in DOMAIN s : s[i] = e /\ \A j \in 1..(i - 1) : s[j] # e
         IN SubSeq(s, 1, k - 1) \o SubSeq(s, k + 1, Len(s))

\* e put into the sorted sequence s behind every element whose key is <= its own
InsertByKey(s, e, key) ==
    LET n == Cardinality({i \in DOMAIN s : key[s[i]] <= key[e]})
    IN SubSeq(s, 1, n) \o <<e>> \o SubSeq(s, n + 1, Len(s))

\* list.sort(key=...): the stable sort of s by key
RECURSIVE SortByKey(_, _)
SortByKey(s, key) ==
    IF s = <<>> THEN <<>>
    ELSE InsertByKey(SortByKey(SubSeq(s, 1, Len(s) - 1), key), s[Len(s)], key)

(***************************************************************************)
(* Angles in quarter turns                                                 *)
(***************************************************************************)
Mod4(a) == IF a >= 0 THEN a % 4 ELSE (4 - ((-a) % 4)) % 4
Cos4(a) == CASE Mod4(a) = 0 -> 1 [] Mod4(a) = 2 -> -1 [] OTHER -> 0
Sin4(a) == CASE Mod4(a) = 1 -> 1 [] Mod4(a) = 3 -> -1 [] OTHER -> 0

\* utilities.angle_fix: the angle brought into [-pi, pi), here [-2, 2)
angle_fix(a) == Mod4(a + 2) - 2

(***************************************************************************)
(* Tank (core.py 1016-1159)                                                *)
(***************************************************************************)
TankParams == <<"x", "y", "angle", "id", "team", "brain", "spawn", "actions", "record">>

\* brain=None and spawn=None
NoBrain == [cls |-> "None", id |-> 0, team |-> TEAM_RED, field_known |-> FALSE]
NoSpawn == [x |-> 0, y |-> 0, angle |-> 0, team |-> TEAM_RED]

\* the defaults of Tank.__init__ (core.py 1020-1021); actions=None becomes []
\* at core.py 1037
TankDefaults ==
    [ x |-> 0, y |-> 0, angle |-> 0, id |-> 0, team |-> TEAM_RED, brain |-> NoBrain,
      spawn |-> NoSpawn, actions |-> <<>>, record |-> FALSE ]

\* Python's binding of a call Tank(*pos, **kw) to the parameters of
\* Tank.__init__ (core.py 1019-1021): a TypeError when a parameter gets a
\* value both by position and by keyword
BindTankArgs(pos, kw) ==
    IF Len(pos) > Len(TankParams) \/ \E i \in 1..Len(pos) : TankParams[i] \in DOMAIN kw
    THEN [exc |-> "TypeError", args |-> TankDefaults]
    ELSE [exc |-> "None",
          args |-> [ n \in DOMAIN TankDefaults |->
                       IF \E i \in 1..Len(pos) : TankParams[i] = n
                       THEN pos[CHOOSE i \in 1..Len(pos) : TankParams[i] = n]
                       ELSE IF n \in DOMAIN kw THEN kw[n] ELSE TankDefaults[n] ]]

\* Tank.__init__ (core.py 1022-1044) on bound arguments.  x_, y_ are _x, _y
\* counted in 1/Substeps of a game unit; dx_, dy_ are _dx, _dy in that unit.
Tank__init__(a) ==
    [ x |-> a.x, y |-> a.y, angle |-> a.angle,
      x_ |-> a.x * Substeps, y_ |-> a.y * Substeps, dx_ |-> 0, dy_ |-> 0,
      brain |-> a.brain, id |-> a.id, team |-> a.team, ammo |-> 0, shoots |-> FALSE,
      respawn_in |-> -1, spawn |-> a.spawn, actions |-> a.actions,
      record |-> a.record, time_thought |-> 0,
      collided |-> FALSE,        \* observation.collided (core.py 1048, 1351)
      finalized |-> "None" ]     \* the argument brain.finalize was called with

\* The call Tank(...) as written in setup: the exception or the new tank
NewTank(pos, kw) ==
    LET b == BindTankArgs(pos, kw)
    IN IF b.exc # "None" THEN [exc |-> b.exc, tank |-> Tank__init__(TankDefaults)]
       ELSE [exc |-> "None", tank |-> Tank__init__(b.args)]

(***************************************************************************)
(* Fountain.spawn_one and Game.add_object                                  *)
(***************************************************************************)
\* Fountain.spawn_one (core.py 1298-1310) with the identity SPREAD of
\* AmmoFountain: whether the child can be placed (its tile is inside the
\* field and free), and where.  Every attempt computes the same position.
spawn_one(f, F) ==
    LET x == F.x + FountainSIZE \div 2
        y == F.y + FountainSIZE \div 2
        j == x \div f.tilesize
        i == y \div f.tilesize
    IN [ ok |-> /\ 0 <= i /\ i < f.height /\ 0 <= j /\ j < f.width
                /\ f.walls[i + 1][j + 1] = 0,
         x |-> x - AmmoSIZE \div 2, y |-> y - AmmoSIZE \div 2 ]

\* the class of an object id, for the class attribute tables
KindOf(id) == IF id[1] \in {"RedSpawn", "BlueSpawn"} THEN "TankSpawn" ELSE id[1]

\* Game.add_object (core.py 514-524) on the three lists; key gives _x per id
add_object(lists, id, key) ==
    [ objects |-> Append(lists.objects, id),
      mov |-> IF Physical(KindOf(id)) /\ Movable(KindOf(id))
              THEN InsertByKey(lists.mov, id, key) ELSE lists.mov,
      stat |-> IF Physical(KindOf(id)) /\ ~Movable(KindOf(id))
               THEN InsertByKey(lists.stat, id, key) ELSE lists.stat ]

RECURSIVE add_objects(_, _, _)
add_objects(lists, ids, key) ==
    IF ids = <<>> THEN lists
    ELSE add_objects(add_object(lists, Head(ids), key), Tail(ids), key)

(***************************************************************************)
(* Game.setup (core.py 233-302)                                            *)
(***************************************************************************)
\* ReplayData.__init__ (core.py 1362-1366); field is set by Game.end
ReplayData(st) ==
    [ present |-> TRUE, settings |-> st, field |-> EmptyField,
      actions_red |-> <<>>, actions_blue |-> <<>> ]

NoReplay ==
    [ present |-> FALSE, settings |-> BaseArgs, field |-> EmptyField,
      actions_red |-> <<>>, actions_blue |-> <<>> ]

\* the decision delegate setup constructs for the tank at index i (from 0) of
\* a side (core.py 271-276, 280-285)
NewBrain(team, i, st) ==
    IF team = TEAM_RED
    THEN [cls |-> "red", id |-> i, team |-> TEAM_RED, field_known |-> st.field_known]
    ELSE IF st.field_known
         THEN [cls |-> "blue", id |-> i, team |-> TEAM_BLUE, field_known |-> TRUE]
         ELSE [cls |-> "red", id |-> i, team |-> TEAM_RED, field_known |-> FALSE]

\* the Tank(...) call of setup for spawn s, index i (from 0): with a brain
\* (core.py 277, 286) or with the recorded actions a (core.py 292, 296)
BrainTank(s, i, team, st, rec) ==
    NewTank(<<s.x + 2, s.y + 2, s.angle, i>>,
            [team |-> team, brain |-> NewBrain(team, i, st), spawn |-> s, record |-> rec])

ReplayTank(s, i, team, a) ==
    NewTank(<<"Game", s.x + 2, s.y + 2, s.angle, i>>,
            [team |-> team, spawn |-> s, actions |-> a])

\* the Tank(...) calls of setup in order: reds, then blues
TankCalls(o, st, rec, rp) ==
    IF rec \/ ~rp.present
    THEN [i \in DOMAIN o.reds |-> BrainTank(o.reds[i], i - 1, TEAM_RED, st, rec)]
         \o [i \in DOMAIN o.blues |-> BrainTank(o.blues[i], i - 1, TEAM_BLUE, st, rec)]
    ELSE [i \in 1..Min(Len(o.reds), Len(rp.actions_red)) |->
            ReplayTank(o.reds[i], i - 1, TEAM_RED, rp.actions_red[i])]
         \o [i \in 1..Min(Len(o.blues), Len(rp.actions_blue)) |->
            ReplayTank(o.blues[i], i - 1, TEAM_BLUE, rp.actions_blue[i])]

\* nothing done yet: no control point touched, no pair notified in the latest
\* substep, no pose and no final score recorded, no delegate of the red or of
\* the blue side raised, setup() not called and no state of a first setup
\* kept, no touch of the control point in the tally cycle that TouchPoint
\* and TallyPoint follow, no tank hit by a shot, no update of the fountains
\* that PickUpAmmo and UpdateObjects follow, no tank that met a tank or a wall
\* in the substeps of the latest step
NoTrace ==
    [ touched |-> FALSE, notified |-> <<>>, steps |-> <<>>, score |-> <<0, 0>>,
      raised |-> <<FALSE, FALSE>>, setups |-> 0, first |-> <<>>, cycle |-> <<>>,
      hit |-> <<>>, short |-> <<>>, updates |-> 0, bumped |-> {} ]

\* the step at which tank i was hit by a shot the last time, 0 when it never was
HitAt(i) == IF i \in DOMAIN trace.hit THEN trace.hit[i] ELSE 0

\* what each tank did in the current step, for the claims (not program state)
NoHist ==
    [ obs_raised |-> FALSE, act_raised |-> FALSE, timed_out |-> FALSE, asked |-> FALSE,
      got |-> <<0, 0, FALSE>>, done |-> FALSE,
      pre |-> [x |-> 0, y |-> 0, angle |-> 0, ammo |-> 0, respawn_in |-> 0] ]

\* a faulty variant of setup() that goes on with the lists as they are
setup_lists_kept(cur) == cur

\* core.py 250-252: the object list and the two broadphase lists are made
\* anew, whatever they held (cur)
setup_lists(cur) == [objects |-> <<>>, mov |-> <<>>, stat |-> <<>>]

\* the attributes of the game that setup() assigns, as it leaves them
SetupState ==
    [ state |-> state, interrupted |-> interrupted, step |-> step, score_red |-> score_red,
      score_blue |-> score_blue, stats |-> stats,
      agent_raised_exception |-> agent_raised_exception, objects |-> objects,
      broadphase_mov |-> broadphase_mov, broadphase_stat |-> broadphase_stat, tanks |-> tanks,
      controlpoints |-> controlpoints, fountains |-> fountains, ammos |-> ammos ]

\* Game.setup()
setup ==
    /\ LET o == get_objects(field)
           sp == [i \in DOMAIN o.other |-> spawn_one(field, o.other[i])]
           ids(kind, n) == [i \in 1..n |-> <<kind, i>>]
           fa == [k \in 1..(2 * Len(o.other)) |->
                    IF k % 2 = 1 THEN <<"AmmoFountain", (k + 1) \div 2>>
                    ELSE <<"Ammo", k \div 2>>]
           calls == TankCalls(o, settings, record, replay)
           made == IF \E i \in DOMAIN calls : calls[i].exc # "None"
                   THEN (CHOOSE i \in DOMAIN calls : calls[i].exc # "None"
                            /\ \A j \in 1..(i - 1) : calls[j].exc = "None") - 1
                   ELSE Len(calls)
           tk == [i \in 1..made |-> calls[i].tank]
           key == [id \in Range(ids("Wall", Len(o.walls))) \cup Range(ids("ControlPoint", Len(o.cps)))
                           \cup Range(ids("Ammo", Len(o.other))) \cup Range(ids("Tank", made)) |->
                     CASE id[1] = "Wall" -> o.walls[id[2]][1]
                       [] id[1] = "ControlPoint" -> o.cps[id[2]].x
                       [] id[1] = "Ammo" -> sp[id[2]].x
                       [] OTHER -> tk[id[2]].x_ ]
           lists == add_objects(setup_lists([objects |-> objects, mov |-> broadphase_mov,
                                             stat |-> broadphase_stat]),
                        ids("Wall", Len(o.walls)) \o ids("ControlPoint", Len(o.cps))
                        \o ids("RedSpawn", Len(o.reds)) \o ids("BlueSpawn", Len(o.blues))
                        \o fa \o ids("Tank", made), key)
       IN /\ replay' = IF record THEN ReplayData(settings) ELSE replay
          /\ score_red' = PyDiv2(settings.max_score)
          /\ score_blue' = PyDiv2(settings.max_score)
          /\ step' = 0
          /\ stats' = GameStats
          /\ agent_raised_exception' = FALSE
          /\ IF \E i \in DOMAIN sp : ~sp[i].ok
             THEN \* Fountain.added_to_game (core.py 1283-1284) never leaves its loop
                  /\ pc' = "hang"
                  /\ exc' = exc
                  /\ UNCHANGED << objects, broadphase_mov, broadphase_stat, tanks,
                                  controlpoints, fountains, ammos, state, interrupted, hist >>
             ELSE /\ objects' = lists.objects
                  /\ broadphase_mov' = lists.mov
                  /\ broadphase_stat' = lists.stat
                  /\ controlpoints' = o.cps
                  /\ fountains' = [i \in DOMAIN o.other |->
                                     [o.other[i] EXCEPT !.children = <<i>>]]
                  /\ ammos' = [i \in DOMAIN o.other |-> Ammo(sp[i].x, sp[i].y, i)]
                  /\ tanks' = tk
                  /\ hist' = [i \in 1..made |-> NoHist]
                  /\ IF made < Len(calls)
                     THEN \* the TypeError leaves setup() and run()
                          /\ pc' = "raised"
                          /\ exc' = calls[made + 1].exc
                          /\ UNCHANGED << state, interrupted >>
                     ELSE /\ pc' = "ready"
                          /\ exc' = exc
                          /\ state' = STATE_READY
                          /\ interrupted' = FALSE
    /\ trace' = [trace EXCEPT !.setups = Min(@ + 1, 2),
                              !.first = IF @ = <<>> THEN <<SetupState'>> ELSE @,
                              !.hit = <<>>]
    /\ UNCHANGED << ctor, gen, sep, phys, entity, io, env, field, settings, record, log, ti, sub >>

\* the setup() call that run() makes on a new game (core.py 306-307), or a
\* call of setup() on a new game
Setup == pc = "new" /\ setup

(***************************************************************************)
(* update() of the objects (core.py 1052-1057, 1177-1184, 1286-1293)       *)
(***************************************************************************)
MIN_CHILDREN == 1

\* a faulty variant of Tank.update that revives a tank one step early
Tank_update_early(t) ==
    IF t.respawn_in = 0 \/ t.respawn_in = 1 THEN [t EXCEPT !.respawn_in = -1]
    ELSE IF t.respawn_in > 0 THEN [t EXCEPT !.respawn_in = @ - 1]
    ELSE t
\* Tank.update
Tank_update(t) ==
    IF t.respawn_in = 0 THEN [t EXCEPT !.respawn_in = -1]
    ELSE IF t.respawn_in > 0 THEN [t EXCEPT !.respawn_in = @ - 1]
    ELSE t

\* a faulty variant of ControlPoint.update that takes nothing from the other
\* side's score
ControlPoint_update_uncompensated(cp, sr, sb, max_score) ==
    LET c == [cp EXCEPT !.collided = <<0, 0, 0>>]
    IN IF cp.team = TEAM_RED /\ sr < max_score
       THEN [cp |-> c, score_red |-> sr + 1, score_blue |-> sb]
       ELSE IF cp.team = TEAM_BLUE /\ sb < max_score
       THEN [cp |-> c, score_red |-> sr, score_blue |-> sb + 1]
       ELSE [cp |-> c, score_red |-> sr, score_blue |-> sb]
\* a faulty variant of ControlPoint.update without the comparison with max_score
ControlPoint_update_unclamped(cp, sr, sb, max_score) ==
    LET c == [cp EXCEPT !.collided = <<0, 0, 0>>]
    IN IF cp.team = TEAM_RED
       THEN [cp |-> c, score_red |-> sr + 1, score_blue |-> sb - 1]
       ELSE IF cp.team = TEAM_BLUE
       THEN [cp |-> c, score_red |-> sr - 1, score_blue |-> sb + 1]
       ELSE [cp |-> c, score_red |-> sr, score_blue |-> sb]

\* a faulty variant of ControlPoint.update in which a point nobody owns
\* scores for red
ControlPoint_update_unowned(cp, sr, sb, max_score) ==
    LET c == [cp EXCEPT !.collided = <<0, 0, 0>>]
    IN IF cp.team # TEAM_BLUE /\ sr < max_score
       THEN [cp |-> c, score_red |-> sr + 1, score_blue |-> sb - 1]
       ELSE IF cp.team = TEAM_BLUE /\ sb < max_score
       THEN [cp |-> c, score_red |-> sr - 1, score_blue |-> sb + 1]
       ELSE [cp |-> c, score_red |-> sr, score_blue |-> sb]

\* ControlPoint.update on the point and the two scores
ControlPoint_update(cp, sr, sb, max_score) ==
    LET c == [cp EXCEPT !.collided = <<0, 0, 0>>]
    IN IF cp.team = TEAM_RED /\ sr < max_score
       THEN [cp |-> c, score_red |-> sr + 1, score_blue |-> sb - 1]
       ELSE IF cp.team = TEAM_BLUE /\ sb < max_score
       THEN [cp |-> c, score_red |-> sr - 1, score_blue |-> sb + 1]
       ELSE [cp |-> c, score_red |-> sr, score_blue |-> sb]

\* a faulty variant of Fountain.update that starts the countdown before it
\* counts down
Fountain_update_early(g, k, f, st) ==
    LET F == g.fountains[k]
        c1 == IF F.countdown = -1 /\ Len(F.children) < MIN_CHILDREN THEN st.ammo_rate
              ELSE F.countdown
        c2 == IF c1 > -1 THEN c1 - 1 ELSE c1
        sp == spawn_one(f, F)
        a == Len(g.ammos) + 1
    IN IF c2 = 0 /\ sp.ok
       THEN [g EXCEPT !.fountains[k] = [F EXCEPT !.countdown = c2, !.children = Append(@, a)],
                      !.ammos = Append(@, Ammo(sp.x, sp.y, k)),
                      !.objects = Append(@, <<"Ammo", a>>),
                      !.stat = InsertByKey(@, <<"Ammo", a>>,
                                  [id \in Range(g.stat) \cup {<<"Ammo", a>>} |->
                                     CASE id[1] = "Wall" -> f.wallrects[id[2]][1]
                                       [] id[1] = "ControlPoint" -> g.cps[id[2]].x
                                       [] OTHER -> IF id[2] = a THEN sp.x ELSE g.ammos[id[2]].x])]
       ELSE [g EXCEPT !.fountains[k].countdown = c2]

\* Fountain.update of fountain k in game g (DELAY is settings.ammo_rate,
\* core.py 1319); a spawned Ammo is appended to the lists as add_object does
Fountain_update(g, k, f, st) ==
    LET F == g.fountains[k]
        c1 == IF F.countdown > -1 THEN F.countdown - 1 ELSE F.countdown
        c2 == IF c1 = -1 /\ Len(F.children) < MIN_CHILDREN THEN st.ammo_rate ELSE c1
        sp == spawn_one(f, F)
        a == Len(g.ammos) + 1
    IN IF c2 = 0 /\ sp.ok
       THEN [g EXCEPT !.fountains[k] = [F EXCEPT !.countdown = c2, !.children = Append(@, a)],
                      !.ammos = Append(@, Ammo(sp.x, sp.y, k)),
                      !.objects = Append(@, <<"Ammo", a>>),
                      !.stat = InsertByKey(@, <<"Ammo", a>>,
                                  [id \in Range(g.stat) \cup {<<"Ammo", a>>} |->
                                     CASE id[1] = "Wall" -> f.wallrects[id[2]][1]
                                       [] id[1] = "ControlPoint" -> g.cps[id[2]].x
                                       [] OTHER -> IF id[2] = a THEN sp.x ELSE g.ammos[id[2]].x])]
       ELSE [g EXCEPT !.fountains[k].countdown = c2]

\* "for o in self.objects: o.update()" (core.py 318-319) from list index i on;
\* the loop also reaches objects appended while it runs
RECURSIVE UpdateAll(_, _, _, _)
UpdateAll(g, i, f, st) ==
    IF i > Len(g.objects) THEN g
    ELSE LET id == g.objects[i]
             k == id[2]
             u == ControlPoint_update(g.cps[k], g.score_red, g.score_blue, st.max_score)
             g1 == CASE id[1] = "Tank" -> [g EXCEPT !.tanks[k] = Tank_update(@)]
                     [] id[1] = "ControlPoint" ->
                          [g EXCEPT !.cps[k] = u.cp, !.score_red = u.score_red,
                                    !.score_blue = u.score_blue]
                     [] id[1] = "AmmoFountain" -> Fountain_update(g, k, f, st)
                     [] OTHER -> g
         IN UpdateAll(g1, i + 1, f, st)

\* the mutable parts of the game as one record, for the operators above
GameRec ==
    [ objects |-> objects, mov |-> broadphase_mov, stat |-> broadphase_stat,
      tanks |-> tanks, cps |-> controlpoints, fountains |-> fountains, ammos |-> ammos,
      score_red |-> score_red, score_blue |-> score_blue, stats |-> stats ]

SetGame(g) ==
    /\ objects' = g.objects
    /\ broadphase_mov' = g.mov
    /\ broadphase_stat' = g.stat
    /\ tanks' = g.tanks
    /\ controlpoints' = g.cps
    /\ fountains' = g.fountains
    /\ ammos' = g.ammos
    /\ score_red' = g.score_red
    /\ score_blue' = g.score_blue
    /\ stats' = g.stats

(***************************************************************************)
(* Game.run (core.py 304-404): start and the update phase of a step        *)
(***************************************************************************)
\* core.py 312
Start ==
    /\ pc = "ready"
    /\ state' = STATE_RUNNING
    /\ pc' = "loop"
    /\ UNCHANGED << ctor, gen, sep, phys, entity, io, env, trace, field, settings, record, replay, interrupted, step, score_red,
                    score_blue, stats, agent_raised_exception, objects, broadphase_mov,
                    broadphase_stat, tanks, controlpoints, fountains, ammos, log, ti, sub,
                    exc, hist >>

\* core.py 314-319: the next iteration of the step loop, or its end
BeginStep ==
    /\ pc = "loop"
    /\ IF step < settings.max_steps
       THEN /\ step' = step + 1
            /\ SetGame(UpdateAll(GameRec, 1, field, settings))
            /\ pc' = IF tanks = <<>> THEN "shoot" ELSE "sense"
            /\ ti' = 1
            /\ hist' = [i \in DOMAIN tanks |-> NoHist]
       ELSE /\ pc' = "end"
            /\ UNCHANGED << step, objects, broadphase_mov, broadphase_stat, tanks,
                            controlpoints, fountains, ammos, score_red, score_blue, stats,
                            ti, hist >>
    /\ UNCHANGED << ctor, gen, sep, phys, entity, io, env, trace, field, settings, record, replay, state, interrupted,
                    agent_raised_exception, log, sub, exc >>

(***************************************************************************)
(* The surroundings of the engine: delegates, contacts, interrupts         *)
(***************************************************************************)
NoOp == <<0, 0, FALSE>>

\* the (turn, speed, shoot) tuples a delegate answers with
ActionSet == { NoOp, <<1, 1, TRUE>>, <<3, 3, FALSE>> }

\* wall-clock time a delegate call takes
Durations == {0, 1}

\* outcome of brain.observe(obs): whether it raised, and the time it took
ObserveReplies == [raised : BOOLEAN, dur : Durations]

\* outcome of brain.action(): whether it raised, the tuple returned, the time
ActionReplies ==
    [raised : {FALSE}, action : ActionSet, dur : Durations]
        \cup [raised : {TRUE}, action : {NoOp}, dur : Durations]

\* the positions of run() at which an interrupt can arrive
LoopPcs == {"loop", "sense", "think", "shoot", "check", "move", "substep"}

\* delegates that answer in no time and never raise
Prompt(actions) == [raised : {FALSE}, action : actions, dur : {0}]

\* A run fixes what its surroundings may do: the replies of observe() and
\* action(), the classes of objects tanks get in contact with, the positions
\* at which an interrupt may arrive, and whether finalize() may raise.
Env(obs, act, contacts, interrupts, fin) ==
    [ observe |-> obs, action |-> act, contacts |-> contacts,
      interrupts |-> interrupts, finalize |-> fin ]

(***************************************************************************)
(* Tank.send_observation and Tank.get_action (core.py 1059-1153)           *)
(***************************************************************************)
\* send_observation (core.py 1106-1116): the tank afterwards, whether the
\* error flag of the game is set, and the exception leaving the method
send_observation(t, r) ==
    IF t.brain.cls = "None"
    THEN [tank |-> t, raised |-> FALSE, exc |-> "None"]
    ELSE [tank |-> [t EXCEPT !.time_thought = r.dur], raised |-> r.raised, exc |-> "None"]

\* a faulty variant of get_action that lets the error of brain.action() pass
get_action_reraising(t, st, r) ==
    LET raised == r.raised \/ t.brain.cls = "None"
    IN [ tank |-> [t EXCEPT !.time_thought = @ + r.dur, !.shoots = FALSE],
         raised |-> raised, late |-> FALSE,
         exc |-> IF raised THEN "Exception" ELSE "None" ]

\* a faulty variant of get_action that compares the time of the action()
\* call alone with think_time
get_action_last_call(t, st, r) ==
    LET raised == r.raised \/ t.brain.cls = "None"
        a0 == IF raised THEN NoOp ELSE r.action
        late == r.dur > st.think_time
        a == IF late THEN NoOp ELSE a0
        alive == t.respawn_in = -1
        speed == Min(st.max_speed, a[2])
        turn == Max(-st.max_turn, Min(st.max_turn, angle_fix(a[1])))
        angle == t.angle + turn
        fire == alive /\ a[3] /\ t.ammo > 0
    IN [ tank |-> [t EXCEPT !.actions = IF t.record THEN Append(@, a) ELSE @,
                            !.time_thought = @ + r.dur, !.shoots = fire,
                            !.angle = IF alive THEN angle ELSE @,
                            !.x = IF alive THEN @ + Cos4(angle) * speed ELSE @,
                            !.y = IF alive THEN @ + Sin4(angle) * speed ELSE @,
                            !.ammo = IF fire THEN @ - 1 ELSE @],
         raised |-> raised, late |-> late, exc |-> "None" ]

\* a faulty variant of get_action that applies the turn and the speed as the
\* delegate gave them and fires without looking at the ammo
get_action_unclamped(t, st, r) ==
    LET raised == r.raised \/ t.brain.cls = "None"
        a0 == IF raised THEN NoOp ELSE r.action
        tt == t.time_thought + r.dur
        late == tt > st.think_time
        a == IF late THEN NoOp ELSE a0
        alive == t.respawn_in = -1
        angle == t.angle + a[1]
        fire == alive /\ a[3]
    IN [ tank |-> [t EXCEPT !.actions = IF t.record THEN Append(@, a) ELSE @,
                            !.time_thought = tt, !.shoots = fire,
                            !.angle = IF alive THEN angle ELSE @,
                            !.x = IF alive THEN @ + Cos4(angle) * a[2] ELSE @,
                            !.y = IF alive THEN @ + Sin4(angle) * a[2] ELSE @,
                            !.ammo = IF fire THEN @ - 1 ELSE @],
         raised |-> raised, late |-> late, exc |-> "None" ]

\* get_action: the tank afterwards, whether the error flag is set, whether
\* the time-out message is logged, and the exception leaving the method
get_action(t, st, r) ==
    LET replaying == ~t.record /\ t.actions # <<>>
        raised == ~replaying /\ (r.raised \/ t.brain.cls = "None")
        a0 == IF replaying THEN Head(t.actions) ELSE IF raised THEN NoOp ELSE r.action
        tt == IF replaying THEN t.time_thought ELSE t.time_thought + r.dur
        late == ~replaying /\ tt > st.think_time
        a == IF late THEN NoOp ELSE a0
        acts == IF replaying THEN Tail(t.actions)
                ELSE IF t.record THEN Append(t.actions, a) ELSE t.actions
        alive == t.respawn_in = -1
        speed == Min(st.max_speed, a[2])
        turn == Max(-st.max_turn, Min(st.max_turn, angle_fix(a[1])))
        angle == t.angle + turn
        fire == alive /\ a[3] /\ t.ammo > 0
    IN [ tank |-> [t EXCEPT !.actions = acts, !.time_thought = tt, !.shoots = fire,
                            !.angle = IF alive THEN angle ELSE @,
                            !.x = IF alive THEN @ + Cos4(angle) * speed ELSE @,
                            !.y = IF alive THEN @ + Sin4(angle) * speed ELSE @,
                            !.ammo = IF fire THEN @ - 1 ELSE @],
         raised |-> raised, late |-> late, exc |-> "None" ]

\* core.py 320-321, one tank
Sense ==
    /\ pc = "sense"
    /\ \E r \in env.observe :
          LET res == send_observation(tanks[ti], r)
          IN /\ tanks' = [tanks EXCEPT ![ti] = res.tank]
             /\ agent_raised_exception' = (agent_raised_exception \/ res.raised)
             /\ hist' = [hist EXCEPT ![ti].obs_raised = res.raised]
             /\ trace' = [trace EXCEPT !.raised[tanks[ti].team + 1] = @ \/ res.raised]
             /\ IF res.exc # "None"
                THEN pc' = "raised" /\ exc' = res.exc /\ ti' = ti
                ELSE /\ exc' = exc
                     /\ IF ti < Len(tanks) THEN pc' = pc /\ ti' = ti + 1
                        ELSE pc' = "think" /\ ti' = 1
    /\ UNCHANGED << ctor, gen, sep, phys, entity, io, env, field, settings, record, replay, state, interrupted, step,
                    score_red, score_blue, stats, objects, broadphase_mov, broadphase_stat,
                    controlpoints, fountains, ammos, log, sub >>

\* core.py 322-323, one tank
Think ==
    /\ pc = "think"
    /\ \E r \in env.action :
          LET t == tanks[ti]
              res == get_action(t, settings, r)
          IN /\ tanks' = [tanks EXCEPT ![ti] = res.tank]
             /\ agent_raised_exception' = (agent_raised_exception \/ res.raised)
             /\ trace' = [trace EXCEPT !.raised[t.team + 1] = @ \/ res.raised]
             /\ log' = IF res.late THEN log \cup {<<"timed out", t.team, t.id, step>>} ELSE log
             /\ hist' = [hist EXCEPT ![ti].act_raised = res.raised, ![ti].timed_out = res.late,
                                     ![ti].got = r.action, ![ti].done = TRUE,
                                     ![ti].asked = ~(~t.record /\ t.actions # <<>>),
                                     ![ti].pre = [x |-> t.x, y |-> t.y, angle |-> t.angle,
                                                  ammo |-> t.ammo, respawn_in |-> t.respawn_in]]
             /\ IF res.exc # "None"
                THEN pc' = "raised" /\ exc' = res.exc /\ ti' = ti
                ELSE /\ exc' = exc
                     /\ IF ti < Len(tanks) THEN pc' = pc /\ ti' = ti + 1
                        ELSE pc' = "shoot" /\ ti' = 1
    /\ UNCHANGED << ctor, gen, sep, phys, entity, io, env, field, settings, record, replay, state, interrupted, step,
                    score_red, score_blue, stats, objects, broadphase_mov, broadphase_stat,
                    controlpoints, fountains, ammos, sub >>

(***************************************************************************)
(* Shooting, end conditions, respawn (core.py 325-383)                     *)
(***************************************************************************)
\* core.py 325-336: h[i] is the tank the ray of tank i hits first, 0 when it
\* hits a wall or nothing (the ray excludes the shooter itself)
Shoot ==
    /\ pc = "shoot"
    /\ \E h \in [DOMAIN tanks -> 0..Len(tanks)] :
          /\ \A i \in DOMAIN tanks : h[i] # i /\ (~tanks[i].shoots => h[i] = 0)
          /\ tanks' = [i \in DOMAIN tanks |->
                         IF \E j \in DOMAIN tanks : tanks[j].shoots /\ h[j] = i
                         THEN [tanks[i] EXCEPT !.respawn_in = settings.spawn_time]
                         ELSE tanks[i]]
          /\ trace' = [trace EXCEPT !.hit = [i \in DOMAIN tanks |->
                         IF \E j \in DOMAIN tanks : tanks[j].shoots /\ h[j] = i
                         THEN step ELSE HitAt(i)]]
    /\ pc' = "check"
    /\ hist' = [i \in DOMAIN tanks |-> NoHist]
    /\ UNCHANGED << ctor, gen, sep, phys, entity, io, env, field, settings, record, replay, state, interrupted, step,
                    score_red, score_blue, stats, agent_raised_exception, objects,
                    broadphase_mov, broadphase_stat, controlpoints, fountains, ammos, log,
                    ti, sub, exc >>

\* core.py 348-355: the two break conditions; the second one reads the name
\* allobjects, which is a local of setup() and unbound in run()
CheckEnd ==
    /\ pc = "check"
    /\ IF BitAnd(settings.end_condition, ENDGAME_SCORE) # 0 /\ (score_red = 0 \/ score_blue = 0)
       THEN pc' = "end" /\ exc' = exc
       ELSE IF BitAnd(settings.end_condition, ENDGAME_CRUMBS) # 0
            THEN pc' = "raised" /\ exc' = "NameError"
            ELSE pc' = "move" /\ exc' = exc
    /\ UNCHANGED << ctor, gen, sep, phys, entity, io, env, trace, field, settings, record, replay, state, interrupted, step,
                    score_red, score_blue, stats, agent_raised_exception, objects,
                    broadphase_mov, broadphase_stat, tanks, controlpoints, fountains,
                    ammos, log, ti, sub, hist >>

\* core.py 361-364 and 377-383 for one tank: the per-substep delta, and the
\* reset of a tank that was shot in this step
prepare_move(t, st) ==
    LET d == [t EXCEPT !.dx_ = t.x - (t.x_ \div Substeps), !.dy_ = t.y - (t.y_ \div Substeps)]
    IN IF d.respawn_in = st.spawn_time
       THEN [d EXCEPT !.ammo = 0,
                      !.x = d.spawn.x + 2, !.x_ = (d.spawn.x + 2) * Substeps,
                      !.y = d.spawn.y + 2, !.y_ = (d.spawn.y + 2) * Substeps,
                      !.dx_ = 0, !.dy_ = 0, !.angle = d.spawn.angle]
       ELSE d

PrepareMove ==
    /\ pc = "move"
    /\ tanks' = [i \in DOMAIN tanks |-> prepare_move(tanks[i], settings)]
    /\ pc' = "substep"
    /\ sub' = 0
    /\ UNCHANGED << ctor, gen, sep, phys, entity, io, env, trace, field, settings, record, replay, state, interrupted, step,
                    score_red, score_blue, stats, agent_raised_exception, objects,
                    broadphase_mov, broadphase_stat, controlpoints, fountains, ammos, log,
                    ti, exc, hist >>

(***************************************************************************)
(* collide() of the objects (core.py 1155-1159, 1186-1208, 1229-1237)      *)
(***************************************************************************)
\* a faulty variant of ControlPoint.collide whose majority mode compares the
\* tallies before it counts the touch
ControlPoint_collide_stale(cp, T, m) ==
    LET c == cp.collided
        c2 == [c EXCEPT ![T + 1] = @ + 1]
    IN IF cp.team # T /\ c[T + 1] = c[cp.team + 1]
       THEN [cp EXCEPT !.team = TEAM_NEUTRAL, !.collided = c2]
       ELSE IF c[T + 1] > c[cp.team + 1]
       THEN [cp EXCEPT !.team = T, !.collided = c2]
       ELSE [cp EXCEPT !.collided = c2]

\* a faulty variant of ControlPoint.collide whose first-claim mode gives the
\* point to every tank that touches it
ControlPoint_collide_latest(cp, T, m) ==
    IF m = CAPTURE_MODE_FIRST
    THEN [cp EXCEPT !.team = T, !.collided = [cp.collided EXCEPT ![T + 1] = @ + 1]]
    ELSE cp

\* a faulty variant of ControlPoint.collide whose neutral mode neutralizes a
\* point of the other team whatever its tally
ControlPoint_collide_untallied(cp, T, m) ==
    IF m = CAPTURE_MODE_NEUTRAL
    THEN IF cp.team # T /\ cp.team # TEAM_NEUTRAL THEN [cp EXCEPT !.team = TEAM_NEUTRAL]
         ELSE [cp EXCEPT !.team = T, !.collided = [cp.collided EXCEPT ![T + 1] = @ + 1]]
    ELSE cp
\* ControlPoint.collide(other) for a tank of team T under capture mode m
ControlPoint_collide(cp, T, m) ==
    LET c == cp.collided
        own == c[cp.team + 1]
        inc(team) == [c EXCEPT ![team + 1] = @ + 1]
    IN CASE m = CAPTURE_MODE_NEUTRAL ->
              IF own > 0 /\ cp.team # T THEN [cp EXCEPT !.team = TEAM_NEUTRAL]
              ELSE [cp EXCEPT !.team = T, !.collided = inc(T)]
         [] m = CAPTURE_MODE_FIRST ->
              IF own > 0 THEN cp ELSE [cp EXCEPT !.team = T, !.collided = inc(T)]
         [] m = CAPTURE_MODE_MAJORITY ->
              LET c2 == inc(T)
              IN IF cp.team # T /\ c2[T + 1] = c2[cp.team + 1]
                 THEN [cp EXCEPT !.team = TEAM_NEUTRAL, !.collided = c2]
                 ELSE IF c2[T + 1] > c2[cp.team + 1]
                 THEN [cp EXCEPT !.team = T, !.collided = c2]
                 ELSE [cp EXCEPT !.collided = c2]
         [] OTHER -> cp

\* a faulty variant of Game.rem_object that leaves the parent's list alone
rem_object_orphan(g, a) ==
    [g EXCEPT !.objects = Remove(@, <<"Ammo", a>>),
              !.stat = Remove(@, <<"Ammo", a>>)]
\* Game.rem_object (core.py 527-537) of Ammo a
rem_object(g, a) ==
    [g EXCEPT !.objects = Remove(@, <<"Ammo", a>>),
              !.stat = Remove(@, <<"Ammo", a>>),
              !.fountains = [k \in DOMAIN @ |->
                               IF k = g.ammos[a].parent
                               THEN [@[k] EXCEPT !.children = Remove(@, a)] ELSE @[k]]]

\* a faulty variant of Ammo.collide that does not look at pickedup
Ammo_collide_again(g, a, i, st) ==
    LET g1 == [g EXCEPT !.stats.ammo_red = IF g.tanks[i].team = TEAM_RED THEN @ + 1 ELSE @,
                        !.stats.ammo_blue = IF g.tanks[i].team = TEAM_BLUE THEN @ + 1 ELSE @,
                        !.tanks[i].ammo = @ + st.ammo_amount]
    IN [rem_object(g1, a) EXCEPT !.ammos[a].pickedup = TRUE]

\* Ammo.collide(other) of Ammo a for tank i
Ammo_collide(g, a, i, st) ==
    IF g.ammos[a].pickedup THEN g
    ELSE LET g1 == [g EXCEPT !.stats.ammo_red = IF g.tanks[i].team = TEAM_RED THEN @ + 1 ELSE @,
                             !.stats.ammo_blue = IF g.tanks[i].team = TEAM_BLUE THEN @ + 1 ELSE @,
                             !.tanks[i].ammo = @ + st.ammo_amount]
         IN [rem_object(g1, a) EXCEPT !.ammos[a].pickedup = TRUE]

\* Tank.collide(other) of tank i
Tank_collide(g, i, other) ==
    IF other[1] \in {"Tank", "Wall"} THEN [g EXCEPT !.tanks[i].collided = TRUE] ELSE g

\* o1.collide(o2); o2.collide(o1) for the pair p = <<o1, o2>> (core.py 511-512)
CollidePair(g, p, st) ==
    LET one(h, me, other) ==
            CASE me[1] = "Tank" -> Tank_collide(h, me[2], other)
              [] me[1] = "ControlPoint" /\ other[1] = "Tank" ->
                   [h EXCEPT !.cps[me[2]] =
                       ControlPoint_collide(@, h.tanks[other[2]].team, st.capture_mode)]
              [] me[1] = "Ammo" /\ other[1] = "Tank" -> Ammo_collide(h, me[2], other[2], st)
              [] OTHER -> h
    IN one(one(g, p[1], p[2]), p[2], p[1])

RECURSIVE CollideAll(_, _, _)
CollideAll(g, ps, st) ==
    IF ps = <<>> THEN g ELSE CollideAll(CollidePair(g, Head(ps), st), Tail(ps), st)

(***************************************************************************)
(* Game.substep (core.py 430-512)                                          *)
(*                                                                         *)
(* Which bounding boxes overlap is decided by the geometry of the field;   *)
(* here the set of overlapping pairs of a substep is any set of at most    *)
(* MaxPairs pairs of a tank with another object of the broadphase lists    *)
(* (of the classes env.contacts), and the pairs are notified in any order  *)
(* (the order of iteration over a Python set of tuples of objects hashed   *)
(* by address).  The positional correction of solid pairs is not part of   *)
(* this action.                                                            *)
(***************************************************************************)
MaxPairs == 2

\* the pairs the broadphase can report: a movable object with a later
\* movable one, or with a static one
CandidatePairs ==
    { p \in { <<broadphase_mov[q[1]], broadphase_mov[q[2]]>> :
                q \in {r \in (DOMAIN broadphase_mov) \X (DOMAIN broadphase_mov) : r[1] < r[2]} }
             \cup (Range(broadphase_mov) \X Range(broadphase_stat)) :
        p[2][1] \in env.contacts }

\* all orders in which the elements of the set S can be iterated
RECURSIVE Orders(_)
Orders(S) ==
    IF S = {} THEN {<<>>}
    ELSE UNION {{<<e>> \o o : o \in Orders(S \ {e})} : e \in S}

\* core.py 436-439 and 444: integration of the movable objects, then the sort
integrate(g) ==
    LET tk == [i \in DOMAIN g.tanks |->
                 IF <<"Tank", i>> \in Range(g.mov)
                 THEN [g.tanks[i] EXCEPT !.x_ = @ + g.tanks[i].dx_, !.y_ = @ + g.tanks[i].dy_]
                 ELSE g.tanks[i]]
    IN [g EXCEPT !.tanks = tk,
                 !.mov = SortByKey(@, [id \in Range(g.mov) |-> tk[id[2]].x_])]

Substep ==
    /\ pc = "substep"
    /\ sub < Substeps
    /\ \E P \in SUBSET CandidatePairs :
          /\ Cardinality(P) <= MaxPairs
          /\ \E order \in Orders(P) :
                /\ SetGame(CollideAll(integrate(GameRec), order, settings))
                /\ trace' = [trace EXCEPT
                                !.notified = order,
                                !.touched = @ \/ \E p \in P : p[2][1] = "ControlPoint",
                                !.bumped = (IF sub = 0 THEN {} ELSE @) \cup
                                    { i \in DOMAIN tanks :
                                        \E p \in P :
                                            \/ p[1] = <<"Tank", i>> /\ p[2][1] \in {"Tank", "Wall"}
                                            \/ p[2] = <<"Tank", i>> /\ p[1][1] \in {"Tank", "Wall"} }]
    /\ sub' = sub + 1
    /\ UNCHANGED << ctor, gen, sep, phys, entity, io, env, field, settings, record, replay, state, interrupted, step,
                    agent_raised_exception, log, pc, ti, exc, hist >>

\* the pose of every tank, as a replay is compared with its recording
Poses(tk) == [i \in DOMAIN tk |-> <<tk[i].x, tk[i].y, tk[i].angle>>]

\* core.py 394-398: the positions of the step become the final substep values
FinishStep ==
    /\ pc = "substep"
    /\ sub = Substeps
    /\ tanks' = [i \in DOMAIN tanks |->
                   [tanks[i] EXCEPT !.x = tanks[i].x_ \div Substeps,
                                    !.y = tanks[i].y_ \div Substeps,
                                    !.angle = angle_fix(@)]]
    /\ pc' = "loop"
    /\ trace' = [trace EXCEPT !.notified = <<>>,
                              !.steps = IF record THEN Append(@, Poses(tanks')) ELSE @]
    /\ UNCHANGED << ctor, gen, sep, phys, entity, io, env, field, settings, record, replay, state, interrupted, step,
                    score_red, score_blue, stats, agent_raised_exception, objects,
                    broadphase_mov, broadphase_stat, controlpoints, fountains, ammos, log,
                    ti, sub, exc, hist >>

(***************************************************************************)
(* Interruption and Game.end (core.py 399-428)                             *)
(***************************************************************************)
\* a GameInterrupt or KeyboardInterrupt raised anywhere inside the try block
Interrupt ==
    /\ pc \in {"loop", "sense", "think", "shoot", "check", "move", "substep"}
    /\ pc \in env.interrupts
    /\ state' = STATE_INTERRUPT
    /\ pc' = "end"
    /\ UNCHANGED << ctor, gen, sep, phys, entity, io, env, trace, field, settings, record, replay, interrupted, step, score_red,
                    score_blue, stats, agent_raised_exception, objects, broadphase_mov,
                    broadphase_stat, tanks, controlpoints, fountains, ammos, log, ti, sub,
                    exc, hist >>

\* a faulty variant of end() that leaves the state as it found it
end_state_kept(cur, intr) == cur

\* core.py 413: the state end() leaves the game in, given the state it found
end_state(cur, intr) == STATE_ENDED

\* core.py 414-417: the finalized stats (score as the fraction <<num, den>>),
\* or a ZeroDivisionError
end_stats(s, sr, sb, n) ==
    IF sr + sb = 0
    THEN [exc |-> "ZeroDivisionError", stats |-> [s EXCEPT !.score_red = sr, !.score_blue = sb]]
    ELSE [exc |-> "None",
          stats |-> [s EXCEPT !.score_red = sr, !.score_blue = sb,
                              !.score = <<sr, sr + sb>>, !.steps = n]]

\* core.py 403, 410-424: end(interrupted=(state == STATE_INTERRUPT)) up to
\* the loop over the tanks
End ==
    /\ pc = "end"
    /\ LET intr == (state = STATE_INTERRUPT)
           e == end_stats(stats, score_red, score_blue, step)
       IN /\ interrupted' = (interrupted \/ intr)
          /\ state' = end_state(state, intr)
          /\ stats' = e.stats
          /\ exc' = e.exc
          /\ hist' = [i \in DOMAIN tanks |-> NoHist]
          /\ IF e.exc # "None"
             THEN pc' = "raised" /\ replay' = replay /\ ti' = ti
             ELSE /\ replay' = IF record
                               THEN [replay EXCEPT
                                       !.settings = [settings EXCEPT !.max_steps = step],
                                       !.field = field,
                                       !.actions_red =
                                           [i \in 1..Cardinality({j \in DOMAIN tanks : tanks[j].team = TEAM_RED}) |->
                                              tanks[i].actions],
                                       !.actions_blue =
                                           [i \in 1..Cardinality({j \in DOMAIN tanks : tanks[j].team = TEAM_BLUE}) |->
                                              tanks[Cardinality({j \in DOMAIN tanks : tanks[j].team = TEAM_RED}) + i].actions]]
                               ELSE replay
                  /\ ti' = 1
                  /\ pc' = IF (record \/ ~replay.present) /\ tanks # <<>>
                           THEN "finalize" ELSE "returned"
    /\ trace' = [trace EXCEPT !.score = IF record THEN <<score_red, score_blue>> ELSE @]
    /\ UNCHANGED << ctor, gen, sep, phys, entity, io, env, field, settings, record, step, score_red, score_blue,
                    agent_raised_exception, objects, broadphase_mov, broadphase_stat, tanks,
                    controlpoints, fountains, ammos, log, sub >>

\* core.py 427-428, one tank: brain.finalize(interrupted) returns or raises
Finalize ==
    /\ pc = "finalize"
    /\ \E raised \in env.finalize :
          IF raised
          THEN /\ pc' = "raised" /\ exc' = "FinalizeError"
               /\ UNCHANGED << tanks, ti >>
          ELSE /\ tanks' = [tanks EXCEPT ![ti].finalized = IF interrupted THEN "True" ELSE "False"]
               /\ exc' = exc
               /\ IF ti < Len(tanks) THEN pc' = pc /\ ti' = ti + 1
                  ELSE pc' = "returned" /\ ti' = ti
    /\ UNCHANGED << ctor, gen, sep, phys, entity, io, env, trace, field, settings, record, replay, state, interrupted, step,
                    score_red, score_blue, stats, agent_raised_exception, objects,
                    broadphase_mov, broadphase_stat, controlpoints, fountains, ammos, log,
                    sub, hist >>

(***************************************************************************)
(* A match: Game(...).run() on the test field                              *)
(***************************************************************************)
\* largest max_score a match is configured with
MaxScore == 2

\* the keyword arguments of the Settings the matches are played with: every
\* max_score up to MaxScore, every capture mode, the end conditions ends
MatchArgs(ends) ==
    { [BaseArgs EXCEPT !.max_score = ms, !.capture_mode = cm, !.end_condition = ec] :
        ms \in 0..MaxScore,
        cm \in {CAPTURE_MODE_NEUTRAL, CAPTURE_MODE_FIRST, CAPTURE_MODE_MAJORITY},
        ec \in ends }

\* the Settings objects whose construction succeeds
MatchSettings(ends) ==
    { Settings__init__(a).self : a \in {b \in MatchArgs(ends) : Settings__init__(b).exc = "None"} }

\* no call of FieldGenerator.generate() is under way; wasted records that an
\* attempt of the wall loop was accepted without adding a wall tile
IdleGen == [pc |-> "idle", exc |-> "None", field |-> EmptyField, points |-> <<>>,
            tilemap |-> <<>>, failed |-> 0, wasted |-> FALSE]

\* no call of the Settings constructor is under way
IdleCtor == [args |-> BaseArgs, pc |-> "idle", exc |-> "None", made |-> FALSE]

\* no conversion of a field is under way; ammo is the attribute Field.ammo,
\* which a field has only when a caller has set it
NoText == [exc |-> "None", rows |-> <<>>]
NoAmmo == [set |-> FALSE, tiles |-> <<>>]
IdleIo == [ pc |-> "idle", exc |-> "None", f |-> EmptyField, ammo |-> NoAmmo,
            text |-> NoText.rows, out |-> EmptyField, out_ammo |-> NoAmmo ]

\* no call of Game.substep on the objects of the collision lists is under way
IdlePhys ==
    [ pc |-> "idle", objs |-> <<>>, mov |-> <<>>, stat |-> <<>>, something_collided |-> TRUE,
      iteration |-> 0, pairs |-> {}, collisions |-> <<>>, found |-> <<>>, calls |-> <<>> ]
\* an object as compute_separation looks at it: _x, _y, width, height, shape
SepObject(x, y, w, h, shape) == [x_ |-> x, y_ |-> y, width |-> w, height |-> h, shape |-> shape]

\* compute_separation returned None
NoSeparation ==
    [ none |-> TRUE, swapped |-> FALSE, exact |-> TRUE, p |-> 0, px |-> 0, py |-> 0,
      md |-> 0, dx |-> 0, dy |-> 0, ds |-> 0 ]

\* no call of compute_separation is under way
IdleSep ==
    [ pc |-> "idle", o1 |-> SepObject(0, 0, 0, 0, 0), o2 |-> SepObject(0, 0, 0, 0, 0),
      res |-> NoSeparation ]

\* Game.play of the web application has stored nothing
NoEntity ==
    [ stored |-> FALSE, winner |-> "none", score_red |-> 0, score_blue |-> 0,
      error_red |-> FALSE, error_blue |-> FALSE ]

\* Game.__init__ (core.py 164-215) without a replay: the attributes setup()
\* creates do not exist yet and are shown empty
InitGame(st, f, rec) ==
    /\ field = f
    /\ settings = st
    /\ record = rec
    /\ replay = NoReplay
    /\ state = STATE_NEW
    /\ interrupted = FALSE
    /\ step = 0
    /\ score_red = 0
    /\ score_blue = 0
    /\ stats = GameStats
    /\ agent_raised_exception = FALSE
    /\ objects = <<>>
    /\ broadphase_mov = <<>>
    /\ broadphase_stat = <<>>
    /\ tanks = <<>>
    /\ controlpoints = <<>>
    /\ fountains = <<>>
    /\ ammos = <<>>
    /\ log = {}
    /\ pc = "new"
    /\ ti = 1
    /\ sub = 0
    /\ exc = "None"
    /\ hist = <<>>
    /\ trace = NoTrace

\* matches that end on the score, of prompt, faultless delegates whose tanks
\* reach the control point and the ammo pack; an interrupt may arrive between
\* two steps
Init ==
    /\ ctor = IdleCtor
    /\ gen = IdleGen
    /\ sep = IdleSep
    /\ entity = NoEntity
    /\ io = IdleIo
    /\ phys = IdlePhys
    /\ env = Env([raised : {FALSE}, dur : {0}], Prompt({NoOp, <<1, 1, TRUE>>}),
                 {"ControlPoint", "Ammo"}, {"loop"}, {FALSE})
    /\ \E st \in MatchSettings({ENDGAME_SCORE}) : InitGame(st, TestField, FALSE)

Next ==
    \/ Setup
    \/ Start
    \/ BeginStep
    \/ Sense
    \/ Think
    \/ Shoot
    \/ CheckEnd
    \/ PrepareMove
    \/ Substep
    \/ FinishStep
    \/ Interrupt
    \/ End
    \/ Finalize

Spec == Init /\ [][Next]_vars

(***************************************************************************)
(* The outcome a finished match is stored with (models.py 284-291)         *)
(***************************************************************************)
\* trueskill.DRAW_MARGIN is defined outside the engine; the margins the
\* outcome is derived with here, as fractions <<num, den>>: any positive one
DrawMargins == { <<1, 100>>, <<1, 4>> }

\* models.py 286-291 on the score <<n, d>> = n/d and the margin <<a, b>> = a/b:
\* abs(0.5 - n/d) < a/b  iff  |d - 2n| * b < 2 * d * a
winner(score, margin) ==
    IF Abs(score[2] - 2 * score[1]) * margin[2] < 2 * score[2] * margin[1] THEN "draw"
    ELSE IF 2 * score[1] > score[2] THEN "red"
    ELSE "blue"

(***************************************************************************)
(* Properties of a match (specification Spec)                              *)
(***************************************************************************)
\* C1: once run() has returned -- after max_steps steps, after a break on an
\* end condition, or after an interrupt -- the state of the game is ENDED or
\* INTERRUPT, never NEW, READY or RUNNING.
C1_ReturnedEndedOrInterrupt ==
    pc = "returned" => state \in {STATE_ENDED, STATE_INTERRUPT}

\* a run that was interrupted before its last step and has returned
C1_ReturnedAfterInterrupt ==
    /\ pc = "returned"
    /\ interrupted
    /\ step < settings.max_steps
    /\ state \in {STATE_ENDED, STATE_INTERRUPT}

\* the tanks notified, in order, of a contact with Ammo a in a substep
Takers(notified, a) ==
    SelectSeq(notified, LAMBDA p : p[1][1] = "Tank" /\ p[2] = <<"Ammo", a>>)

\* one substep: every Ammo that was in the game and is touched is picked up by
\* the first tank notified and by no other
C6_Substep ==
    LET fresh == { a \in DOMAIN ammos :
                     ~ammos[a].pickedup /\ Takers(trace'.notified, a) # <<>> }
        taker(a) == Takers(trace'.notified, a)[1][1][2]
        won(i) == Cardinality({a \in fresh : taker(a) = i})
        wonBy(T) == Cardinality({a \in fresh : tanks[taker(a)].team = T})
    IN /\ DOMAIN ammos' = DOMAIN ammos
       /\ \A a \in DOMAIN ammos : ammos'[a].pickedup = (ammos[a].pickedup \/ a \in fresh)
       /\ \A i \in DOMAIN tanks :
             tanks'[i].ammo = tanks[i].ammo + settings.ammo_amount * won(i)
       /\ stats'.ammo_red = stats.ammo_red + wonBy(TEAM_RED)
       /\ stats'.ammo_blue = stats.ammo_blue + wonBy(TEAM_BLUE)

\* C6: a tank that collides with an Ammo gets exactly settings.ammo_amount
\* more ammo, the Ammo leaves the object list and the broadphase list, and no
\* later collide call on it -- one made for a second tank in the same substep
\* included -- changes the ammo of a tank or the pickup counters.
C6_AmmoPickedUpOnce ==
    [][ /\ (pc = "substep" /\ sub' = sub + 1) => C6_Substep
        /\ \A a \in DOMAIN ammos' :
              ammos'[a].pickedup =>
                 /\ <<"Ammo", a>> \notin Range(objects')
                 /\ <<"Ammo", a>> \notin Range(broadphase_stat')
                 /\ <<"Ammo", a>> \notin Range(broadphase_mov') ]_vars

\* both tanks were notified of a contact with the same Ammo in one substep of
\* the first step; it is picked up and exactly one of them has the ammunition
C6_TwoTanksOnePickup ==
    /\ step = 1
    /\ Len(tanks) = 2
    /\ Len(Takers(trace.notified, 1)) = 2
    /\ ammos[1].pickedup
    /\ tanks[1].ammo + tanks[2].ammo = settings.ammo_amount
    /\ stats.ammo_red + stats.ammo_blue = 1
    /\ <<"Ammo", 1>> \notin Range(objects)

\* end() has computed the stats of the run
StatsDone == pc \in {"finalize", "returned"} \/ (pc = "raised" /\ exc = "FinalizeError")

\* what C9 expects of a finished match
C9_Draw ==
    /\ step = settings.max_steps
    /\ stats.steps = settings.max_steps
    /\ stats.score_red = PyDiv2(settings.max_score)
    /\ stats.score_blue = PyDiv2(settings.max_score)
    /\ 2 * stats.score[1] = stats.score[2]
    /\ \A m \in DrawMargins : winner(stats.score, m) = "draw"

\* the run is over: run() returned or an exception left it
RunOver == pc \in {"finalize", "returned", "raised"}

UntouchedScoreMatch ==
    /\ BitAnd(settings.end_condition, ENDGAME_SCORE) # 0
    /\ ~trace.touched
    /\ state # STATE_INTERRUPT
    /\ ~interrupted

\* C9 as stated: with end_condition = SCORE, a match in which no tank ever
\* touches a control point runs exactly max_steps steps, both scores stay at
\* max_score/2, the normalized score is 0.5 and the winner is "draw".
C9_AsStated ==
    UntouchedScoreMatch =>
        /\ pc \notin {"new", "raised"} =>
              score_red = PyDiv2(settings.max_score) /\ score_blue = PyDiv2(settings.max_score)
        /\ RunOver => StatsDone /\ C9_Draw

\* C9, amended: the same for max_score > 0.  (With max_score = 0 both scores
\* are 0 from the start: the loop breaks in step 1 and end() divides by 0.)
C9_UntouchedMatchIsDraw ==
    (UntouchedScoreMatch /\ settings.max_score > 0) =>
        /\ pc \notin {"new", "raised"} =>
              score_red = PyDiv2(settings.max_score) /\ score_blue = PyDiv2(settings.max_score)
        /\ RunOver => StatsDone /\ C9_Draw

\* an uninterrupted SCORE match without a touch has returned after max_steps steps
C9_UntouchedMatchReturned ==
    /\ UntouchedScoreMatch
    /\ settings.max_score = 2
    /\ pc = "returned"
    /\ stats.steps = MaxSteps
    /\ stats.score = <<1, 2>>

(***************************************************************************)
(* Matches with faulty and slow delegates (specification SpecThink)        *)
(***************************************************************************)
\* delegates that raise, answer late or answer in time, and always ask to
\* turn, move and shoot; the tanks reach the ammo pack, so that they have
\* something to shoot with; the actions are recorded or not
InitThink ==
    /\ ctor = IdleCtor
    /\ gen = IdleGen
    /\ sep = IdleSep
    /\ entity = NoEntity
    /\ io = IdleIo
    /\ phys = IdlePhys
    /\ env = Env(ObserveReplies, {r \in ActionReplies : r.action \in {NoOp, <<1, 1, TRUE>>}
                                                          /\ (r.action = NoOp => r.raised)},
                 {"Ammo"}, {"loop"}, {FALSE})
    /\ \E rec \in BOOLEAN :
          InitGame(Settings__init__([BaseArgs EXCEPT !.end_condition = ENDGAME_NONE]).self,
                   TestField, rec)

SpecThink == InitThink /\ [][Next]_vars

\* tank i is as it was before get_action, and does not shoot
NoOpApplied(i) ==
    /\ tanks[i].angle = hist[i].pre.angle
    /\ tanks[i].x = hist[i].pre.x
    /\ tanks[i].y = hist[i].pre.y
    /\ tanks[i].ammo = hist[i].pre.ammo
    /\ ~tanks[i].shoots

\* tank i has turned, moved and shot as the tuple a asks for (core.py 1140-1153)
Applied(i, a) ==
    LET pre == hist[i].pre
        turn == IF a[1] > settings.max_turn THEN settings.max_turn
                ELSE IF a[1] < -settings.max_turn THEN -settings.max_turn ELSE a[1]
        speed == IF a[2] > settings.max_speed THEN settings.max_speed ELSE a[2]
        heading == pre.angle + turn
    IN IF pre.respawn_in # -1 THEN NoOpApplied(i)
       ELSE /\ tanks[i].angle = heading
            /\ tanks[i].x = pre.x + speed * Cos4(heading)
            /\ tanks[i].y = pre.y + speed * Sin4(heading)
            /\ tanks[i].shoots = (a[3] /\ pre.ammo > 0)
            /\ tanks[i].ammo = IF a[3] /\ pre.ammo > 0 THEN pre.ammo - 1 ELSE pre.ammo

\* get_action of tank i has run in the current step and asked the delegate
Decided(i) == hist[i].done /\ hist[i].asked

\* an error of a delegate is flagged, does not leave run(), and the loops
\* over the tanks and over the steps go on
FaultsContained ==
    /\ pc = "raised" => exc # "Exception"
    /\ \A i \in DOMAIN hist :
          (hist[i].obs_raised \/ hist[i].act_raised) =>
             /\ agent_raised_exception
             /\ pc \in {"sense", "think", "shoot"}
             /\ pc = "sense" => ti > i
             /\ (pc = "think" /\ hist[i].done) => ti > i
    /\ (pc = "end" /\ state = STATE_RUNNING) =>
          \/ step = settings.max_steps
          \/ BitAnd(settings.end_condition, ENDGAME_SCORE) # 0 /\ (score_red = 0 \/ score_blue = 0)

\* C3 as stated: if the delegate of a tank raises an error in observe or in
\* action on some step, the action applied to the tank on that step is the
\* no-op, the error does not leave run(), and the loop goes on with the
\* remaining tanks and the later steps.
C3_AsStated ==
    /\ FaultsContained
    /\ \A i \in DOMAIN hist :
          (Decided(i) /\ (hist[i].obs_raised \/ hist[i].act_raised)) => NoOpApplied(i)

\* C3, amended: an error raised in action is replaced by the no-op; after an
\* error raised in observe the tuple that action returns is applied (unless
\* action raises too or the tank timed out); in both cases the error is
\* flagged, does not leave run(), and the loop goes on with the remaining
\* tanks and the later steps.
C3_ActionErrorIsNoOp ==
    /\ FaultsContained
    /\ \A i \in DOMAIN hist :
          /\ (Decided(i) /\ hist[i].act_raised) => NoOpApplied(i)
          /\ (Decided(i) /\ hist[i].obs_raised /\ ~hist[i].act_raised
                /\ tanks[i].time_thought <= settings.think_time) => Applied(i, hist[i].got)

\* in step 2 the delegate of tank 1 raised in observe and its action was
\* applied; the delegate of tank 2 raised in action and the tank stands still
C3_BothFaults ==
    /\ step = 2
    /\ pc = "shoot"
    /\ Len(tanks) = 2
    /\ hist[1].obs_raised /\ ~hist[1].act_raised /\ ~hist[1].timed_out
    /\ hist[1].got = <<1, 1, TRUE>>
    /\ hist[1].pre.respawn_in = -1
    /\ tanks[1].angle = hist[1].pre.angle + 1
    /\ hist[2].act_raised
    /\ NoOpApplied(2)

\* C4: if the time measured for the decision calls of a tank in a step
\* exceeds settings.think_time, a time-out message is logged and the action
\* applied, and recorded, for the tank in that step is the no-op: get_action
\* changes neither the angle nor the target position, and the tank does not
\* shoot.
C4_TimedOutIsNoOp ==
    \A i \in DOMAIN hist :
        (Decided(i) /\ tanks[i].time_thought > settings.think_time) =>
            /\ NoOpApplied(i)
            /\ <<"timed out", tanks[i].team, tanks[i].id, step>> \in log
            /\ tanks[i].record =>
                  /\ Len(tanks[i].actions) = step
                  /\ tanks[i].actions[step] = NoOp

\* a living tank with ammunition whose delegate asked, too late, to turn,
\* move and shoot; its actions are recorded
C4_LateShooter ==
    \E i \in DOMAIN hist :
        /\ Decided(i)
        /\ tanks[i].time_thought > settings.think_time
        /\ ~hist[i].act_raised
        /\ hist[i].got = <<1, 1, TRUE>>
        /\ hist[i].pre.respawn_in = -1
        /\ hist[i].pre.ammo > 0
        /\ tanks[i].record
        /\ tanks[i].actions[step] = NoOp

(***************************************************************************)
(* Matches on a field with two control points (specification SpecPoints)   *)
(***************************************************************************)
\* red spawn | control point | control point | blue spawn | wall
TwoPointField ==
    [TestField EXCEPT !.controlpoints = << <<1, 0>>, <<2, 0>> >>, !.other_objects = <<>>]

InitPoints ==
    /\ ctor = IdleCtor
    /\ gen = IdleGen
    /\ sep = IdleSep
    /\ entity = NoEntity
    /\ io = IdleIo
    /\ phys = IdlePhys
    /\ env = Env([raised : {FALSE}, dur : {0}], Prompt({NoOp}),
                 {"ControlPoint"}, {"loop"}, {FALSE})
    /\ \E st \in MatchSettings({ENDGAME_NONE, ENDGAME_SCORE}) : InitGame(st, TwoPointField, FALSE)

SpecPoints == InitPoints /\ [][Next]_vars

\* the owner the tallies r (red) and b (blue) of a cycle call for
MajorityOwner(r, b) ==
    IF r > b THEN TEAM_RED ELSE IF b > r THEN TEAM_BLUE ELSE TEAM_NEUTRAL

\* C5: in majority capture mode, once a control point was touched in the
\* current tally cycle (since its latest update), it is owned by the team
\* with strictly more touches in the cycle and is neutral when both teams
\* touched it equally often, whoever owned it when the cycle began.
C5_MajorityOwnsPoint ==
    settings.capture_mode = CAPTURE_MODE_MAJORITY =>
        \A k \in DOMAIN controlpoints :
            LET cp == controlpoints[k]
            IN cp.collided # <<0, 0, 0>> =>
                 /\ cp.collided[TEAM_NEUTRAL + 1] = 0
                 /\ cp.team = MajorityOwner(cp.collided[TEAM_RED + 1], cp.collided[TEAM_BLUE + 1])

\* red scored at the update of step 2 and the second point has been neutral
\* and untouched since, so red owned the first point when the cycle began;
\* then red touched it once and blue twice, and it is blue
C5_RedPointFlippedToBlue ==
    /\ settings.capture_mode = CAPTURE_MODE_MAJORITY
    /\ settings.max_score = 2
    /\ step = 2
    /\ score_red = 2
    /\ Len(controlpoints) = 2
    /\ controlpoints[2].team = TEAM_NEUTRAL
    /\ controlpoints[2].collided = <<0, 0, 0>>
    /\ controlpoints[1].collided = <<1, 2, 0>>
    /\ controlpoints[1].team = TEAM_BLUE

ScoresInRange(sr, sb) ==
    /\ 0 <= sr /\ sr <= settings.max_score
    /\ 0 <= sb /\ sb <= settings.max_score

\* the update phase of a step, seen from outside: r points owned by red and
\* b points owned by blue have been updated
C10_Update ==
    LET r == Cardinality({k \in DOMAIN controlpoints : controlpoints[k].team = TEAM_RED})
        b == Cardinality({k \in DOMAIN controlpoints : controlpoints[k].team = TEAM_BLUE})
        cap(n) == IF n > settings.max_score THEN settings.max_score ELSE n
    IN /\ score_red' + score_blue' = score_red + score_blue
       /\ b = 0 => score_red' = cap(score_red + r)
       /\ r = 0 => score_blue' = cap(score_blue + b)
       /\ (r = 0 /\ b = 0) => (score_red' = score_red /\ score_blue' = score_blue)
       /\ Abs(score_red' - score_red) <= Max(r, b)

Construct ==
    /\ ctor.pc = "call"
    /\ LET r == Settings__init__(ctor.args)
       IN ctor' = [ctor EXCEPT !.pc = "done", !.exc = r.exc, !.made = (r.exc = "None")]
    /\ UNCHANGED << gen, sep, phys, entity, io, env, trace, gameVars >>

InitSettings ==
    /\ \E ms \in (-MaxArg)..MaxArg, fw \in (-MaxArg)..MaxArg :
          ctor = [ args |-> [BaseArgs EXCEPT !.max_score = ms, !.field_width = fw],
                   pc |-> "call", exc |-> "None", made |-> FALSE ]
    /\ gen = IdleGen
    /\ sep = IdleSep
    /\ entity = NoEntity
    /\ io = IdleIo
    /\ phys = IdlePhys
    /\ env = Env({}, {}, {}, {}, {})
    /\ InitGame(BaseArgs, EmptyField, FALSE)

NextSettings == Construct

SpecSettings == InitSettings /\ [][NextSettings]_vars

Even(a) == \E k \in (-MaxArg)..MaxArg : a = 2 * k
Odd(a) == \E k \in (-MaxArg)..MaxArg : a = 2 * k + 1

\* C8: the construction of Settings succeeds only when max_score is even and
\* field_width is odd: for every odd max_score and for every even field_width
\* it raises an error and no Settings object results.
C8_SettingsParity ==
    ctor.pc = "done" =>
        /\ ctor.made => (Even(ctor.args.max_score) /\ Odd(ctor.args.field_width))
        /\ (Odd(ctor.args.max_score) \/ Even(ctor.args.field_width)) =>
              (ctor.exc # "None" /\ ~ctor.made)
        /\ (Even(ctor.args.max_score) /\ Odd(ctor.args.field_width)) =>
              (ctor.exc = "None" /\ ctor.made)

\* the constructor was called with an odd max_score and a good field_width,
\* and raised
C8_OddScoreRejected ==
    /\ ctor.pc = "done"
    /\ ctor.args.max_score = 3
    /\ ctor.args.field_width = 5
    /\ ctor.exc = "Exception"
    /\ ~ctor.made

(***************************************************************************)
(* A recorded match and its replay (specification SpecReplay)              *)
(***************************************************************************)
\* Game(replay=r, ...) for the ReplayData r of the match that has just
\* returned (core.py 164-215): settings and field come from r; the attributes
\* setup() creates do not exist yet
PlayReplay ==
    /\ pc = "returned"
    /\ record
    /\ replay.present
    /\ record' = FALSE
    /\ settings' = replay.settings
    /\ field' = replay.field
    /\ state' = STATE_NEW
    /\ interrupted' = FALSE
    /\ step' = 0
    /\ score_red' = 0
    /\ score_blue' = 0
    /\ stats' = GameStats
    /\ agent_raised_exception' = FALSE
    /\ objects' = <<>>
    /\ broadphase_mov' = <<>>
    /\ broadphase_stat' = <<>>
    /\ tanks' = <<>>
    /\ controlpoints' = <<>>
    /\ fountains' = <<>>
    /\ ammos' = <<>>
    /\ log' = {}
    /\ pc' = "new"
    /\ ti' = 1
    /\ sub' = 0
    /\ exc' = "None"
    /\ hist' = <<>>
    /\ trace' = [trace EXCEPT !.touched = FALSE, !.notified = <<>>]
    /\ UNCHANGED << ctor, gen, sep, phys, entity, io, env, replay >>

\* recorded matches with and without tanks
InitReplay ==
    /\ ctor = IdleCtor
    /\ gen = IdleGen
    /\ sep = IdleSep
    /\ entity = NoEntity
    /\ io = IdleIo
    /\ phys = IdlePhys
    /\ env = Env([raised : {FALSE}, dur : {0}], Prompt({NoOp, <<1, 1, TRUE>>}),
                 {"ControlPoint"}, {"loop"}, {FALSE})
    /\ \E f \in {TestField, EmptyField} :
          InitGame(Settings__init__(BaseArgs).self, f, TRUE)

NextReplay == Next \/ PlayReplay

SpecReplay == InitReplay /\ [][NextReplay]_vars

\* the run is the replay of a recorded match
Replaying == replay.present /\ ~record

\* C2: a Game constructed from the ReplayData of a recorded match runs, has
\* one tank per recorded action list, shows after every step the poses the
\* recorded run showed after that step, and ends with the same scores.
C2_ReplayReproduces ==
    Replaying =>
        /\ pc # "raised"
        /\ pc \notin {"new", "raised"} =>
              Len(tanks) = Len(replay.actions_red) + Len(replay.actions_blue)
        /\ (pc = "loop" /\ step >= 1) => Poses(tanks) = trace.steps[step]
        /\ pc = "returned" => <<score_red, score_blue>> = trace.score

(***************************************************************************)
(* FieldGenerator (core.py 817-956) (specification SpecGen)                *)
(*                                                                         *)
(* Tiles are (x, y) = (column, row) from 0; a tilemap is a sequence of     *)
(* rows, so tile (x, y) of the map m is m[y + 1][x + 1].                   *)
(***************************************************************************)
\* the failed attempts after which create_wall_map gives up (100 in the
\* source, core.py 935) scaled down
MaxFailed == 2

\* the arguments of FieldGenerator.__init__ (core.py 820-833) of the model: a
\* small field; wall_fill is the fraction <<num, den>>, and with
\* 0 < wall_orientation < 1 both orientations can be drawn
GenArgs ==
    [ width |-> 11, height |-> 8, tilesize |-> 16, num_spawns |-> 2, num_ammo |-> 2,
      wall_fill |-> <<51, 100>>, wall_len |-> <<2, 2>>, wall_width |-> 1,
      wall_gridsize |-> 2 ]

\* tile (x, y) of the map m
TileAt(m, x, y) == m[y + 1][x + 1]

\* m with tile (x, y) set to v
SetTile(m, x, y, v) == [m EXCEPT ![y + 1][x + 1] = v]

\* sum(sum(row) for row in tilemap)
RECURSIVE SumSeq(_)
SumSeq(q) == IF q = <<>> THEN 0 ELSE Head(q) + SumSeq(Tail(q))
Filled(m) == SumSeq([i \in DOMAIN m |-> SumSeq(m[i])])

\* a faulty variant of reflect_tilemap that repeats the half map instead of
\* mirroring it
reflect_tilemap_repeated(tilemap, newsize) ==
    [r \in DOMAIN tilemap |->
        [c \in 1..newsize |->
            IF c - 1 < newsize \div 2 THEN tilemap[r][c] ELSE tilemap[r][c - newsize \div 2]]]
\* FieldGenerator.reflect_tilemap with axis_vertical=True (core.py 836-850):
\* column i of the result is column i of the half map for i < newsize // 2
\* and column newsize - 1 - i otherwise
reflect_tilemap(tilemap, newsize) ==
    [r \in DOMAIN tilemap |->
        [c \in 1..newsize |->
            IF c - 1 < newsize \div 2 THEN tilemap[r][c] ELSE tilemap[r][newsize - c + 1]]]

\* utilities.reachable(tilemap, (x, y)): the flood fill of the free tiles from
\* a start tile over the four neighbours; the set of tiles reached
RECURSIVE Flood(_, _, _)
Flood(m, seen, frontier) ==
    IF frontier = {} THEN seen
    ELSE LET around == UNION { { <<t[1] + 1, t[2]>>, <<t[1] - 1, t[2]>>,
                                 <<t[1], t[2] + 1>>, <<t[1], t[2] - 1>> } : t \in frontier }
             new == { n \in around : /\ n \notin seen
                                     /\ 0 <= n[2] /\ n[2] < Len(m)
                                     /\ 0 <= n[1] /\ n[1] < Len(m[1])
                                     /\ TileAt(m, n[1], n[2]) = 0 }
         IN Flood(m, seen \cup new, new)

reachable(m, start) ==
    IF TileAt(m, start[1], start[2]) # 0 THEN {} ELSE Flood(m, {start}, {start})

\* FieldGenerator.place_objects (core.py 890-913): the field with the objects
\* for the random draws cy (row of the middle control point) and ammo (the
\* tile of the left fountain of each pair)
RECURSIVE SpawnTiles(_, _, _)
SpawnTiles(n, i, j) ==
    IF n = 0 THEN <<>>
    ELSE <<<<i, j>>>> \o (IF i + 1 >= 2 + 2 THEN SpawnTiles(n - 1, 2, j + 1)
                          ELSE SpawnTiles(n - 1, i + 1, j))

place_objects(a, cy, ammo) ==
    LET sp == SpawnTiles(a.num_spawns, 2, 1)
        cpleft == <<(a.width - 1) \div 4, (a.height - 1) - 3>>
    IN [ width |-> a.width, height |-> a.height, tilesize |-> a.tilesize,
         walls |-> <<>>, wallrects |-> <<>>,
         spawns_red |-> [k \in DOMAIN sp |-> <<sp[k][1], sp[k][2], 0>>],
         spawns_blue |-> [k \in DOMAIN sp |-> <<a.width - 1 - sp[k][1], sp[k][2], -2>>],
         controlpoints |-> << cpleft, <<a.width \div 2, cy>>,
                              <<a.width - 1 - cpleft[1], cpleft[2]>> >>,
         other_objects |-> [k \in 1..(2 * Len(ammo)) |->
                              IF k % 2 = 1
                              THEN <<ammo[(k + 1) \div 2][1], ammo[(k + 1) \div 2][2], "AmmoFountain">>
                              ELSE <<a.width - 1 - ammo[k \div 2][1], ammo[k \div 2][2], "AmmoFountain">>] ]

\* the draws of place_objects: random.randint(3, height/2+1), and per pair
\* of fountains (random.randint(3, width//2-1), random.randint(5, height-2))
PlaceObjects ==
    /\ gen.pc = "place"
    /\ \E cy \in 3..(GenArgs.height \div 2 + 1),
          ammo \in [1..(GenArgs.num_ammo \div 2) ->
                      (3..(GenArgs.width \div 2 - 1)) \X (5..(GenArgs.height - 2))] :
          gen' = [gen EXCEPT !.pc = "map", !.field = place_objects(GenArgs, cy, ammo)]
    /\ UNCHANGED << ctor, sep, phys, entity, io, env, trace, gameVars >>

\* int(0.5 + width/2.0)
HalfWidth(a) == (a.width + 1) \div 2

\* create_wall_map up to its loop (core.py 915-934): the points to keep
\* reachable and the half map with the outer walls
StartWallMap ==
    /\ gen.pc = "map"
    /\ LET f == gen.field
           pts == f.controlpoints \o f.other_objects \o f.spawns_red \o f.spawns_blue
           hw == HalfWidth(GenArgs)
       IN gen' = [gen EXCEPT
                    !.pc = "walls",
                    !.points = [k \in DOMAIN pts |-> <<pts[k][1], pts[k][2]>>],
                    !.tilemap = [r \in 1..GenArgs.height |->
                                   [c \in 1..hw |->
                                      IF r = 1 \/ r = GenArgs.height \/ c = 1 THEN 1 ELSE 0]],
                    !.failed = 0]
    /\ UNCHANGED << ctor, sep, phys, entity, io, env, trace, gameVars >>

\* the half map with a section of sw x sh tiles at the grid position below
\* the draw (x, y) (core.py 945-950)
with_section(m, a, x, y, sw, sh) ==
    LET x0 == (x \div a.wall_gridsize) * a.wall_gridsize
        y0 == (y \div a.wall_gridsize) * a.wall_gridsize
    IN [r \in DOMAIN m |->
          [c \in DOMAIN m[r] |->
             IF y0 <= r - 1 /\ r - 1 < y0 + sh /\ x0 <= c - 1 /\ c - 1 < x0 + sw
             THEN 1 ELSE m[r][c]]]

\* a faulty variant of the acceptance test that looks at the control points only
accepts_points_only(new, f, points, a) ==
    LET reachability == reachable(reflect_tilemap(new, a.width),
                                  <<f.spawns_red[1][1], f.spawns_red[1][2]>>)
    IN \A k \in DOMAIN f.controlpoints : f.controlpoints[k] \in reachability

\* core.py 951-952: the reflected candidate leaves every point reachable from
\* the first red spawn
accepts(new, f, points, a) ==
    LET reachability == reachable(reflect_tilemap(new, a.width),
                                  <<f.spawns_red[1][1], f.spawns_red[1][2]>>)
    IN \A k \in DOMAIN points : points[k] \in reachability

\* the target of the loop is not met: sum < 0.5 * height * width * wall_fill
BelowFill(m, a) ==
    Filled(m) * 2 * a.wall_fill[2] < a.height * a.width * a.wall_fill[1]

\* one iteration of the loop of create_wall_map (core.py 935-955)
WallStep ==
    /\ gen.pc = "walls"
    /\ BelowFill(gen.tilemap, GenArgs) /\ gen.failed < MaxFailed
    /\ \E horizontal \in BOOLEAN, len \in GenArgs.wall_len[1]..GenArgs.wall_len[2] :
          LET sw == IF horizontal THEN len ELSE GenArgs.wall_width
              sh == IF horizontal THEN GenArgs.wall_width ELSE len
              xs == 1..(HalfWidth(GenArgs) - sw)
              ys == 1..(GenArgs.height - sh - 1)
          IN IF xs = {} \/ ys = {}
             THEN \* random.randint on an empty range
                  gen' = [gen EXCEPT !.pc = "raised", !.exc = "ValueError"]
             ELSE \* the candidates of the draws x in xs and y in ys
                  \E new \in { with_section(gen.tilemap, GenArgs, x, y, sw, sh) :
                                  x \in xs, y \in ys } :
                     IF accepts(new, gen.field, gen.points, GenArgs)
                     THEN gen' = [gen EXCEPT !.tilemap = new,
                                             !.wasted = @ \/ new = gen.tilemap]
                     ELSE gen' = [gen EXCEPT !.failed = @ + 1]
    /\ UNCHANGED << ctor, sep, phys, entity, io, env, trace, gameVars >>

\* the loop is left and the half map is reflected into field.walls (core.py 956)
EndWallMap ==
    /\ gen.pc = "walls"
    /\ ~(BelowFill(gen.tilemap, GenArgs) /\ gen.failed < MaxFailed)
    /\ gen' = [gen EXCEPT !.pc = "clear",
                          !.field.walls = reflect_tilemap(gen.tilemap, GenArgs.width)]
    /\ UNCHANGED << ctor, sep, phys, entity, io, env, trace, gameVars >>

\* the tile in front of a spawn: (int(x + cos(r) + 0.5), int(y + sin(r) + 0.5))
\* for the angles 0 and -pi (here -2) that place_objects gives
FrontTile(x, y, r) ==
    IF r = 0 THEN <<x + 1, y>> ELSE <<IF x >= 1 THEN x - 1 ELSE 0, y>>

RECURSIVE ClearTiles(_, _)
ClearTiles(m, tiles) ==
    IF tiles = <<>> THEN m
    ELSE ClearTiles(SetTile(m, Head(tiles)[1], Head(tiles)[2], 0), Tail(tiles))

RECURSIVE Flatten(_)
Flatten(q) == IF q = <<>> THEN <<>> ELSE Head(q) \o Flatten(Tail(q))

\* FieldGenerator.clear_walls_under_objects (core.py 852-862)
clear_walls_under_objects(f) ==
    LET sp == f.spawns_red \o f.spawns_blue
        under == Flatten([k \in DOMAIN sp |->
                            << <<sp[k][1], sp[k][2]>>, FrontTile(sp[k][1], sp[k][2], sp[k][3]) >>])
        around == Flatten([k \in DOMAIN f.controlpoints |->
                             [n \in 1..9 |-> << f.controlpoints[k][1] - 1 + ((n - 1) % 3),
                                                f.controlpoints[k][2] - 1 + ((n - 1) \div 3) >>]])
        other == [k \in DOMAIN f.other_objects |->
                    <<f.other_objects[k][1], f.other_objects[k][2]>>]
    IN [f EXCEPT !.walls = ClearTiles(f.walls, under \o around \o other)]

\* generate() after create_wall_map (core.py 875-888); the merged wall
\* rectangles and the navigation mesh are not part of the model
ClearWalls ==
    /\ gen.pc = "clear"
    /\ gen' = [gen EXCEPT !.pc = "done", !.field = clear_walls_under_objects(gen.field)]
    /\ UNCHANGED << ctor, sep, phys, entity, io, env, trace, gameVars >>

InitGen ==
    /\ ctor = IdleCtor
    /\ gen = [IdleGen EXCEPT !.pc = "place"]
    /\ sep = IdleSep
    /\ entity = NoEntity
    /\ io = IdleIo
    /\ phys = IdlePhys
    /\ env = Env({}, {}, {}, {}, {})
    /\ InitGame(BaseArgs, EmptyField, FALSE)

NextGen ==
    \/ PlaceObjects
    \/ StartWallMap
    \/ WallStep
    \/ EndWallMap
    \/ ClearWalls

SpecGen == InitGen /\ [][NextGen]_vars

\* the tiles of the spawns, control points and fountains of field f
ObjectTiles(f) ==
    { <<q[1], q[2]>> : q \in Range(f.spawns_red) \cup Range(f.spawns_blue)
                             \cup Range(f.controlpoints) \cup Range(f.other_objects) }

\* C7: in every Field that generate() returns, every red and blue spawn
\* tile, every control-point tile and every fountain tile can be reached
\* through free tiles from every red spawn tile, whether or not the target
\* wall fill was reached.
C7_ObjectsReachable ==
    gen.pc = "done" =>
        \A k \in DOMAIN gen.field.spawns_red :
            ObjectTiles(gen.field) \subseteq
                reachable(gen.field.walls,
                          <<gen.field.spawns_red[k][1], gen.field.spawns_red[k][2]>>)

\* generate() has returned a field with walls inside after giving up below
\* the target wall fill
C7_GaveUpBelowFill ==
    /\ gen.pc = "done"
    /\ gen.failed = MaxFailed
    /\ BelowFill(gen.tilemap, GenArgs)
    /\ Filled(gen.tilemap) > 2 * HalfWidth(GenArgs) + GenArgs.height - 2
    /\ \E x \in 1..(GenArgs.width - 2), y \in 1..(GenArgs.height - 2) :
          TileAt(gen.field.walls, x, y) = 1

(***************************************************************************)
(* Teardown: interrupts at any position and delegates whose finalize()     *)
(* may raise (specification SpecEnd)                                       *)
(***************************************************************************)
\* matches without an end condition, of prompt delegates that do nothing; an
\* interrupt may arrive anywhere in the loop and finalize() may raise
InitEnd ==
    /\ ctor = IdleCtor
    /\ gen = IdleGen
    /\ sep = IdleSep
    /\ entity = NoEntity
    /\ io = IdleIo
    /\ phys = IdlePhys
    /\ env = Env([raised : {FALSE}, dur : {0}], Prompt({NoOp}), {"ControlPoint"}, LoopPcs,
                 BOOLEAN)
    /\ \E st \in MatchSettings({ENDGAME_NONE}) : InitGame(st, TestField, FALSE)

SpecEnd == InitEnd /\ [][Next]_vars

\* every tank but the one at index i had its delegate notified
OthersNotified(i) == \A j \in DOMAIN tanks : j # i => tanks[j].finalized # "None"

\* C11 as stated: if one delegate's finalize call raises during end(), the
\* delegates of all other tanks are still notified and run() returns normally
\* with finalized stats.
C11_AsStated ==
    exc = "FinalizeError" =>
        /\ pc = "returned"
        /\ OthersNotified(ti)
        /\ stats.steps = step

\* C12 as stated: when the step loop is interrupted during a step, end() runs
\* once, the stats are finalized from the state at the interruption, the
\* interrupted flag is set and every delegate receives finalize(True); without
\* an interrupt every delegate receives finalize(False).  (Runs in which a
\* finalize() call raised are left aside here.)
C12_AsStated ==
    /\ (pc = "end" /\ state = STATE_INTERRUPT) => ~interrupted
    /\ (RunOver /\ interrupted /\ step >= 1 /\ exc # "FinalizeError") =>
          /\ StatsDone
          /\ stats.score_red = score_red /\ stats.score_blue = score_blue
          /\ stats.score = <<score_red, score_red + score_blue>>
          /\ stats.steps = step
          /\ pc = "returned" => \A i \in DOMAIN tanks : tanks[i].finalized = "True"
    /\ (pc = "returned" /\ ~interrupted) =>
          \A i \in DOMAIN tanks : tanks[i].finalized = "False"

(***************************************************************************)
(* The match orchestration of the web application (models.py 271-319)      *)
(* (specification SpecPlay)                                                *)
(***************************************************************************)
\* reading the flag attribute name of the Game object: Game.setup assigns
\* agent_raised_exception (core.py 261) and no other flag of that kind
Game_flag(name) ==
    IF name = "agent_raised_exception"
    THEN [exc |-> "None", value |-> agent_raised_exception]
    ELSE [exc |-> "AttributeError", value |-> FALSE]

\* Game.play after dg.run() has returned (models.py 284-313): the winner, then
\* the error flags of the two sides are read off the game and stored
Game_play ==
    /\ pc = "returned"
    /\ \E m \in DrawMargins :
          LET r == Game_flag("red_raised_exception")
              b == Game_flag("blue_raised_exception")
          IN IF r.exc # "None" \/ b.exc # "None"
             THEN /\ pc' = "raised"
                  /\ exc' = IF r.exc # "None" THEN r.exc ELSE b.exc
                  /\ entity' = entity
             ELSE /\ pc' = "stored"
                  /\ exc' = exc
                  /\ entity' = [ stored |-> TRUE, winner |-> winner(stats.score, m),
                                 score_red |-> stats.score_red, score_blue |-> stats.score_blue,
                                 error_red |-> r.value, error_blue |-> b.value ]
    /\ UNCHANGED << ctor, gen, sep, phys, io, env, trace, field, settings, record, replay, state, interrupted,
                    step, score_red, score_blue, stats, agent_raised_exception, objects,
                    broadphase_mov, broadphase_stat, tanks, controlpoints, fountains, ammos,
                    log, ti, sub, hist >>

\* matches of prompt delegates that do nothing but may raise in observe() and
\* in action()
InitPlay ==
    /\ ctor = IdleCtor
    /\ gen = IdleGen
    /\ sep = IdleSep
    /\ entity = NoEntity
    /\ io = IdleIo
    /\ phys = IdlePhys
    /\ env = Env([raised : BOOLEAN, dur : {0}], [raised : BOOLEAN, action : {NoOp}, dur : {0}],
                 {}, {"loop"}, {FALSE})
    /\ \E st \in MatchSettings({ENDGAME_NONE}) : InitGame(st, TestField, FALSE)

NextPlay == Next \/ Game_play

SpecPlay == InitPlay /\ [][NextPlay]_vars

\* C13 as stated: after a match the red error flag is set if and only if some
\* red tank's delegate raised an error, the blue one if and only if some blue
\* tank's delegate did, and these two flags are what the orchestration hands
\* on with the result.
C13_AsStated ==
    (pc = "stored" \/ (pc = "raised" /\ exc = "AttributeError")) =>
        /\ entity.stored
        /\ entity.error_red = trace.raised[TEAM_RED + 1]
        /\ entity.error_blue = trace.raised[TEAM_BLUE + 1]

(***************************************************************************)
(* Actions beyond the limits (specification SpecAct)                       *)
(***************************************************************************)
\* actions that turn further and drive faster than the settings allow,
\* forwards and backwards, with and without a shot
WideActions == { NoOp, <<-2, 3, TRUE>>, <<1, -3, TRUE>>, <<3, 1, FALSE>> }

\* matches of prompt, faultless delegates that answer with the wide actions,
\* for max_turn 0 and 1; the tanks reach the ammo pack
InitAct ==
    /\ ctor = IdleCtor
    /\ gen = IdleGen
    /\ sep = IdleSep
    /\ entity = NoEntity
    /\ io = IdleIo
    /\ phys = IdlePhys
    /\ env = Env([raised : {FALSE}, dur : {0}], Prompt(WideActions), {"Ammo"}, {"loop"}, {FALSE})
    /\ \E mt \in {0, 1} :
          InitGame(Settings__init__([BaseArgs EXCEPT !.end_condition = ENDGAME_NONE,
                                                     !.max_turn = mt]).self,
                   TestField, FALSE)

SpecAct == InitAct /\ [][Next]_vars

\* the step is the get_action call of the tank at index ti
ThinkStep == pc = "think" /\ (pc' = "shoot" \/ (pc' = "think" /\ ti' = ti + 1))

\* what C14 says of the tank before (t) and after (u) its get_action call
C14_Tank(t, u) ==
    t.respawn_in = -1 =>
        /\ Abs(u.angle - t.angle) <= settings.max_turn
        /\ (u.x - t.x) * Cos4(u.angle) + (u.y - t.y) * Sin4(u.angle) <= settings.max_speed
        /\ u.shoots => (t.ammo > 0 /\ u.ammo = t.ammo - 1)
        /\ ~u.shoots => u.ammo = t.ammo

\* C14: for any action applied to a live tank the change of its angle is at
\* most max_turn in magnitude, the applied speed is at most max_speed, the
\* tank fires only if its ammo was > 0 before, and then its ammo goes down by
\* exactly 1; the ammo of a tank is never negative.
C14_ActionClamped ==
    [][ /\ ThinkStep => C14_Tank(tanks[ti], tanks'[ti])
        /\ \A i \in DOMAIN tanks' : tanks'[i].ammo >= 0 ]_vars

\* a tank with ammo was told to turn by -2, drive at speed 3 and shoot: it
\* turned by -1, moved 2 and fired one round
C14_ClampedShot ==
    /\ pc = "shoot"
    /\ \E i \in DOMAIN tanks :
          /\ hist[i].done /\ hist[i].got = <<-2, 3, TRUE>>
          /\ hist[i].pre.respawn_in = -1 /\ hist[i].pre.ammo > 0
          /\ settings.max_turn = 1
          /\ tanks[i].angle = hist[i].pre.angle - 1
          /\ Abs(tanks[i].x - hist[i].pre.x) + Abs(tanks[i].y - hist[i].pre.y) = settings.max_speed
          /\ tanks[i].shoots /\ tanks[i].ammo = hist[i].pre.ammo - 1

(***************************************************************************)
(* The CRUMBS end condition (specification SpecCrumbs)                     *)
(***************************************************************************)
\* matches with and without the CRUMBS flag, on a field without any Crumb
InitCrumbs ==
    /\ ctor = IdleCtor
    /\ gen = IdleGen
    /\ sep = IdleSep
    /\ entity = NoEntity
    /\ io = IdleIo
    /\ phys = IdlePhys
    /\ env = Env([raised : {FALSE}, dur : {0}], Prompt({NoOp}), {"ControlPoint"}, {"loop"}, {FALSE})
    /\ \E st \in MatchSettings({ENDGAME_NONE, ENDGAME_CRUMBS, ENDGAME_SCORE + ENDGAME_CRUMBS}) :
          InitGame(st, TestField, FALSE)

SpecCrumbs == InitCrumbs /\ [][Next]_vars

\* C15 as stated, on a field without crumbs: with the CRUMBS flag the loop
\* stops at the check of the first step, which finds no Crumb, and run()
\* finalizes normally through end().  (max_score > 0 and no interrupt, so
\* that nothing else ends the run.)
C15_AsStated ==
    ( /\ BitAnd(settings.end_condition, ENDGAME_CRUMBS) # 0
      /\ settings.max_score > 0
      /\ ~interrupted /\ state # STATE_INTERRUPT
      /\ RunOver ) =>
        /\ StatsDone
        /\ step = 1 /\ stats.steps = 1

(***************************************************************************)
(* The SCORE end condition (checked under SpecPoints)                      *)
(***************************************************************************)
ScoreFlag == BitAnd(settings.end_condition, ENDGAME_SCORE) # 0
ScoreIsZero == score_red = 0 \/ score_blue = 0

\* C16 as stated: with the SCORE flag the loop stops at the first step s at
\* whose check a score is 0 (it does not go on to move with a score of 0),
\* and then stats.steps = s; without the flag the loop is not left before
\* max_steps unless it is interrupted.  The scores change in the update phase
\* only, so an uninterrupted run that is over with a score of 0 under the
\* flag was stopped by the check of its last step.
C16_AsStated ==
    /\ (ScoreFlag /\ pc = "move") => ~ScoreIsZero
    /\ (pc = "end" /\ state # STATE_INTERRUPT /\ step < settings.max_steps) =>
          (ScoreFlag /\ ScoreIsZero)
    /\ (ScoreFlag /\ ScoreIsZero /\ RunOver /\ ~interrupted) =>
          (StatsDone /\ stats.steps = step)

(***************************************************************************)
(* setup() on a game that has finished (specification SpecSetup)           *)
(***************************************************************************)
\* setup() is called on a game whose run() has returned, directly or by a
\* second run() (core.py 306-307: the state is ENDED, not READY); once
SetupAgain ==
    /\ pc = "returned"
    /\ trace.setups < 2
    /\ setup

\* matches without an end condition of prompt, faultless delegates that
\* drive, turn and shoot, touch the control point and take the ammo; with and
\* without knowledge of the field, not recorded; an interrupt may arrive
\* between two steps
InitSetup ==
    /\ ctor = IdleCtor
    /\ gen = IdleGen
    /\ sep = IdleSep
    /\ entity = NoEntity
    /\ io = IdleIo
    /\ phys = IdlePhys
    /\ env = Env([raised : {FALSE}, dur : {0}], Prompt({<<1, 1, TRUE>>}),
                 {"ControlPoint", "Ammo"}, {"loop"}, {FALSE})
    /\ \E fk \in BOOLEAN :
          InitGame(Settings__init__([BaseArgs EXCEPT !.field_known = fk,
                                                     !.end_condition = ENDGAME_NONE]).self,
                   TestField, FALSE)

NextSetup == Next \/ SetupAgain

SpecSetup == InitSetup /\ [][NextSetup]_vars

\* the initial state that C17 lists
FreshGame ==
    /\ state = STATE_READY
    /\ step = 0
    /\ score_red = PyDiv2(settings.max_score) /\ score_blue = PyDiv2(settings.max_score)
    /\ stats = GameStats
    /\ ~agent_raised_exception
    /\ \A k \in DOMAIN controlpoints :
          controlpoints[k].team = TEAM_NEUTRAL /\ controlpoints[k].collided = <<0, 0, 0>>
    /\ \A i \in DOMAIN tanks :
          /\ tanks[i].x = tanks[i].spawn.x + 2 /\ tanks[i].y = tanks[i].spawn.y + 2
          /\ tanks[i].angle = tanks[i].spawn.angle
          /\ tanks[i].ammo = 0 /\ tanks[i].respawn_in = -1
    /\ Len(tanks) = Len(field.spawns_red) + Len(field.spawns_blue)
    /\ Len(objects) = Len(field.wallrects) + Len(field.controlpoints) + Len(field.spawns_red)
                        + Len(field.spawns_blue) + 2 * Len(field.other_objects) + Len(tanks)
    /\ Cardinality(Range(objects)) = Len(objects)
    /\ Range(broadphase_mov) \cup Range(broadphase_stat) \subseteq Range(objects)
    /\ Len(broadphase_mov) + Len(broadphase_stat)
          = Cardinality(Range(broadphase_mov) \cup Range(broadphase_stat))
    /\ \A a \in DOMAIN ammos : ~ammos[a].pickedup

\* C17: setup() (or run()) called again on a Game that has finished puts it
\* in READY with exactly the initial state of the first setup: step 0, both
\* scores max_score/2, fresh stats, cleared error flag, neutral control
\* points, tanks at their spawns without ammo or respawn countdown, object
\* and broadphase lists with freshly created objects only.
C17_SetupAgainIsFresh ==
    (pc = "ready" /\ trace.setups = 2) =>
        /\ SetupState = trace.first[1]
        /\ FreshGame

\* setup() has run a second time on a game of two tanks, after a match in
\* which a tank touched the control point
C17_SecondSetupAfterPlay ==
    /\ pc = "ready" /\ trace.setups = 2
    /\ trace.touched
    /\ Len(tanks) = 2

\* the agent class and the team id of a side
OwnClass(team) == IF team = TEAM_RED THEN "red" ELSE "blue"

\* C18 as stated: in setup() of a non-replay game, for both values of
\* field_known, the delegate of every tank is an instance of its own side's
\* agent class, constructed with the tank's index and its own team id, and it
\* is given the field if and only if field_known is true.
C18_AsStated ==
    (pc = "ready" /\ ~(replay.present /\ ~record)) =>
        \A i \in DOMAIN tanks :
            /\ tanks[i].brain.cls = OwnClass(tanks[i].team)
            /\ tanks[i].brain.team = tanks[i].team
            /\ tanks[i].brain.id = tanks[i].id
            /\ tanks[i].brain.field_known = settings.field_known

(***************************************************************************)
(* The stats end() produces (checked under Spec)                           *)
(***************************************************************************)
\* C19 as stated: for every valid Settings (every even max_score, 0
\* included) end() produces stats.score = score_red / (score_red + score_blue)
\* within [0, 1], the raw scores, and the number of the last step started.
C19_AsStated ==
    RunOver =>
        /\ StatsDone
        /\ stats.score_red = score_red /\ stats.score_blue = score_blue
        /\ stats.score[2] > 0
        /\ stats.score[1] * (score_red + score_blue) = score_red * stats.score[2]
        /\ 0 <= stats.score[1] /\ stats.score[1] <= stats.score[2]
        /\ stats.steps = step

(***************************************************************************)
(* Game.compute_separation (core.py 556-649) (specification SpecSep)       *)
(*                                                                         *)
(* Positions and sizes are integers and the sizes are even, so that the    *)
(* halves are integers.  A result is exact when the code computes it       *)
(* without a square root: penetration p and movement (px, py).  Otherwise  *)
(* it is kept as md, dx, dy, ds, and stands for the penetration md - d     *)
(* and the movement ((md - d) / d) * (dx, dy) with d = sqrt(ds).           *)
(***************************************************************************)
SHAPE_RECT == 0
SHAPE_CIRC == 1

\* largest coordinate of an object handed to compute_separation
MaxCoord == 3

\* rect_separation without the comparisons of core.py 630, 636 and 642: the
\* side that is looked at last is taken
rect_separation_last_side(o1, o2) ==
    LET left == (o1.x_ + o1.width) - o2.x_
        top == (o1.y_ + o1.height) - o2.y_
        right == (o2.x_ + o2.width) - o1.x_
        bottom == (o2.y_ + o2.height) - o1.y_
    IN IF left <= 0 \/ top <= 0 \/ right <= 0 \/ bottom <= 0 THEN NoSeparation
       ELSE [NoSeparation EXCEPT !.none = FALSE, !.p = bottom, !.py = bottom]
\* core.py 617-645: the separation of two rectangles along the side with the
\* smallest penetration
rect_separation(o1, o2) ==
    LET left == (o1.x_ + o1.width) - o2.x_
        top == (o1.y_ + o1.height) - o2.y_
        right == (o2.x_ + o2.width) - o1.x_
        bottom == (o2.y_ + o2.height) - o1.y_
        s1 == <<left, -left, 0>>
        s2 == IF top < s1[1] THEN <<top, 0, -top>> ELSE s1
        s3 == IF right < s2[1] THEN <<right, right, 0>> ELSE s2
        s4 == IF bottom < s3[1] THEN <<bottom, 0, bottom>> ELSE s3
    IN IF left <= 0 \/ top <= 0 \/ right <= 0 \/ bottom <= 0 THEN NoSeparation
       ELSE [NoSeparation EXCEPT !.none = FALSE, !.p = s4[1], !.px = s4[2], !.py = s4[3]]

\* core.py 600-614: the separation of the circle proxy <<cx, cy, ra>> and the
\* circle object2
circle_separation(proxy, o2) ==
    LET md == proxy[3] + o2.width \div 2
        dx == (proxy[1] + proxy[3]) - (o2.x_ + o2.width \div 2)
        dy == (proxy[2] + proxy[3]) - (o2.y_ + o2.height \div 2)
        ds == dx * dx + dy * dy
    IN IF ds = 0 THEN [NoSeparation EXCEPT !.none = FALSE]
       ELSE IF ds < md * md
            THEN [NoSeparation EXCEPT !.none = FALSE, !.exact = FALSE,
                                      !.md = md, !.dx = dx, !.dy = dy, !.ds = ds]
            ELSE NoSeparation

\* compute_separation(object1, object2).  For two circles the code assigns
\* True to the name sep_as_cicles (core.py 571), so sep_as_circles keeps the
\* False of core.py 566 and the pair is separated as two rectangles.  For a
\* circle and a rectangle the two are exchanged (core.py 576-578) and never
\* exchanged back, because objects_switched keeps the False of core.py 567.
compute_separation(object1, object2) ==
    IF object1.shape = object2.shape
    THEN rect_separation(object1, object2)
    ELSE LET sw == object1.shape = SHAPE_CIRC
             o1 == IF sw THEN object2 ELSE object1
             o2 == IF sw THEN object1 ELSE object2
             cx == o2.x_ + o2.width \div 2
             cy == o2.y_ + o2.height \div 2
             l == o1.x_
             t == o1.y_
             r == l + o1.width
             b == t + o1.height
             corner == (cx < l \/ cx > r) /\ (cy < t \/ cy > b)
             proxy == << IF cx < l THEN l ELSE r, IF cy < t THEN t ELSE b, 0 >>
             res == IF corner THEN circle_separation(proxy, o2) ELSE rect_separation(o1, o2)
         IN [res EXCEPT !.swapped = sw /\ ~res.none]

\* one call of compute_separation
ComputeSeparation ==
    /\ sep.pc = "call"
    /\ sep' = [sep EXCEPT !.pc = "done", !.res = compute_separation(sep.o1, sep.o2)]
    /\ UNCHANGED << ctor, gen, phys, entity, io, env, trace, gameVars >>

\* the objects handed to compute_separation: squares and circles of
\* diameter 2 and 4 at the positions up to MaxCoord
SepObjects ==
    { SepObject(x, y, w, w, sh) :
        x \in 0..MaxCoord, y \in 0..MaxCoord, w \in {2, 4}, sh \in {SHAPE_RECT, SHAPE_CIRC} }

InitSep ==
    /\ ctor = IdleCtor
    /\ gen = IdleGen
    /\ entity = NoEntity
    /\ io = IdleIo
    /\ phys = IdlePhys
    /\ \E a \in SepObjects, b \in SepObjects :
          sep = [pc |-> "call", o1 |-> a, o2 |-> b, res |-> NoSeparation]
    /\ env = Env({}, {}, {}, {}, {})
    /\ InitGame(BaseArgs, EmptyField, FALSE)

NextSep == ComputeSeparation

SpecSep == InitSep /\ [][NextSep]_vars

\* the centre of an object and the squared distance of two centres
Centre(o) == <<o.x_ + o.width \div 2, o.y_ + o.height \div 2>>
Dist2(a, b) == (a[1] - b[1]) * (a[1] - b[1]) + (a[2] - b[2]) * (a[2] - b[2])

\* the result r is what C20 says for circles with radii that sum up to R and
\* with centres c1, c2: the penetration is R - d and the movement is parallel
\* to c2 - c1
SeparatesCircles(r, R, c1, c2) ==
    /\ ~r.none
    /\ IF r.exact
       THEN /\ R - r.p >= 0 /\ (R - r.p) * (R - r.p) = Dist2(c1, c2)
            /\ r.px * (c2[2] - c1[2]) = r.py * (c2[1] - c1[1])
       ELSE /\ r.md = R /\ r.ds = Dist2(c1, c2)
            /\ r.dx * (c2[2] - c1[2]) = r.dy * (c2[1] - c1[1])

\* C20 as stated: for two circle-shaped objects with radii r1 and r2 whose
\* centres are at distance d with 0 < d < r1 + r2, compute_separation returns
\* the penetration (r1 + r2) - d and a correction vector parallel to the line
\* through the two centres.
C20_AsStated ==
    LET R == sep.o1.width \div 2 + sep.o2.width \div 2
        d2 == Dist2(Centre(sep.o1), Centre(sep.o2))
    IN ( /\ sep.pc = "done"
         /\ sep.o1.shape = SHAPE_CIRC /\ sep.o2.shape = SHAPE_CIRC
         /\ 0 < d2 /\ d2 < R * R ) =>
            SeparatesCircles(sep.res, R, Centre(sep.o1), Centre(sep.o2))

(***************************************************************************)
(* Two rectangles (specification SpecSep)                                  *)
(***************************************************************************)
\* the four overlap distances of core.py 623, 628, 634, 640: left, top,
\* right, bottom
Overlaps(o1, o2) ==
    << (o1.x_ + o1.width) - o2.x_, (o1.y_ + o1.height) - o2.y_,
       (o2.x_ + o2.width) - o1.x_, (o2.y_ + o2.height) - o1.y_ >>

\* the result r gives no separation when an overlap distance is not
\* positive, and otherwise the smallest distance as penetration with a
\* movement of that length along the axis of a side with that distance
SmallestSide(r, v) ==
    IF \E i \in 1..4 : v[i] <= 0 THEN r.none
    ELSE /\ ~r.none /\ r.exact
         /\ r.p = Min(Min(v[1], v[2]), Min(v[3], v[4]))
         /\ \/ Abs(r.px) = r.p /\ r.py = 0 /\ r.p \in {v[1], v[3]}
            \/ r.px = 0 /\ Abs(r.py) = r.p /\ r.p \in {v[2], v[4]}

TwoRects == sep.pc = "done" /\ sep.o1.shape = SHAPE_RECT /\ sep.o2.shape = SHAPE_RECT

\* C21, amended: for two axis-aligned rectangles compute_separation returns
\* None when one of the four overlap distances is not positive, and otherwise
\* the smallest of the four as penetration with a correction along the axis
\* of a side with that distance; when a vertical overlap (top or bottom) is
\* smaller than both horizontal ones, the correction's x-component is zero.
C21_RectSeparation ==
    TwoRects =>
        LET v == Overlaps(sep.o1, sep.o2)
        IN /\ SmallestSide(sep.res, v)
           /\ (~sep.res.none /\ Min(v[2], v[4]) < Min(v[1], v[3])) => sep.res.px = 0

\* C21 as stated: the x-component is zero whenever a vertical overlap is a
\* smallest one, also when a horizontal overlap is as small
C21_AsStated ==
    TwoRects =>
        LET v == Overlaps(sep.o1, sep.o2)
        IN /\ SmallestSide(sep.res, v)
           /\ (~sep.res.none /\ Min(v[2], v[4]) <= Min(v[1], v[3])) => sep.res.px = 0

\* two rectangles were separated along the y-axis, upwards
C21_VerticalSeparation ==
    /\ TwoRects /\ ~sep.res.none
    /\ sep.res.px = 0 /\ sep.res.py < 0
    /\ sep.o1.x_ # sep.o2.x_

(***************************************************************************)
(* The symmetry of a generated field (specification SpecGen)               *)
(***************************************************************************)
\* the tiles of a sequence of entries <<x, y, ...>>, and their mirror images
\* in a field of width w
TilesOf(q) == { <<e[1], e[2]>> : e \in Range(q) }
Mirrored(tiles, w) == { <<w - 1 - t[1], t[2]>> : t \in tiles }

\* C22: every generated Field of odd width w is mirror-symmetric about its
\* vertical centre column, also after the walls under the objects have been
\* cleared: walls[y][x] = walls[y][w-1-x] for all tiles, (x, y) is a red spawn
\* tile iff (w-1-x, y) is a blue spawn tile, and the sets of control-point
\* tiles and of fountain tiles are each mapped onto themselves.
C22_MirrorSymmetric ==
    (gen.pc \in {"clear", "done"} /\ GenArgs.width % 2 = 1) =>
        LET f == gen.field
            w == f.width
        IN /\ \A y \in 0..(f.height - 1), x \in 0..(w - 1) :
                 TileAt(f.walls, x, y) = TileAt(f.walls, w - 1 - x, y)
           /\ TilesOf(f.spawns_blue) = Mirrored(TilesOf(f.spawns_red), w)
           /\ TilesOf(f.controlpoints) = Mirrored(TilesOf(f.controlpoints), w)
           /\ TilesOf(f.other_objects) = Mirrored(TilesOf(f.other_objects), w)

\* generate() has returned a field in which walls were cleared under the
\* objects and in which wall sections are left inside the outer walls
C22_ClearedWalls ==
    /\ gen.pc = "done"
    /\ gen.field.walls # reflect_tilemap(gen.tilemap, GenArgs.width)
    /\ \E y \in 1..(gen.field.height - 2), x \in 1..(gen.field.width - 2) :
          TileAt(gen.field.walls, x, y) = 1

(***************************************************************************)
(* The wall loop of create_wall_map (specification SpecGen)                *)
(***************************************************************************)
\* an attempt of the loop of create_wall_map after which the loop goes on
WallAttempt == gen.pc = "walls" /\ gen'.pc = "walls"

\* C23 as stated: the wall placement loop of create_wall_map terminates
\* without error: every attempt either increases the number of wall tiles of
\* the half map or increments the counter of failed attempts and leaves the
\* half map unchanged (so that the attempts are bounded by the target tile
\* count plus the budget), and when the budget is used up the field with the
\* fill reached so far is returned.
C23_AsStated ==
    [][ /\ gen'.pc # "raised"
        /\ WallAttempt =>
              \/ Filled(gen'.tilemap) > Filled(gen.tilemap) /\ gen'.failed = gen.failed
              \/ gen'.failed = gen.failed + 1 /\ gen'.tilemap = gen.tilemap
        /\ (gen.pc = "walls" /\ gen.failed >= MaxFailed) =>
              /\ gen'.pc = "clear"
              /\ gen'.field.walls = reflect_tilemap(gen.tilemap, GenArgs.width) ]_vars

(***************************************************************************)
(* The text form of a field: Field.__str__ and Field.from_string           *)
(* (core.py 739-788) (specification SpecText)                              *)
(*                                                                         *)
(* A string is a sequence of characters.  A raised exception is the exc    *)
(* field of a result.                                                      *)
(***************************************************************************)
\* the size of the fields that are written and read
MaxCols == 3
MaxRows == 2

\* sepr.join(parts)
RECURSIVE Join(_, _)
Join(parts, sepr) ==
    IF parts = <<>> THEN <<>>
    ELSE IF Len(parts) = 1 THEN parts[1]
    ELSE parts[1] \o sepr \o Join(Tail(parts), sepr)

\* s.split(ch): the pieces between the occurrences of ch, empty ones included
RECURSIVE SplitOn(_, _, _)
SplitOn(s, ch, cur) ==
    IF s = <<>> THEN <<cur>>
    ELSE IF Head(s) = ch THEN <<cur>> \o SplitOn(Tail(s), ch, <<>>)
    ELSE SplitOn(Tail(s), ch, Append(cur, Head(s)))

\* l.split(): the pieces between blanks, empty ones left out
Words(l) == SelectSeq(SplitOn(l, " ", <<>>), LAMBDA w : w # <<>>)

\* s.strip()
RECURSIVE Strip(_)
Strip(s) ==
    IF s = <<>> THEN s
    ELSE IF Head(s) \in {" ", "\n"} THEN Strip(Tail(s))
    ELSE IF s[Len(s)] \in {" ", "\n"} THEN Strip(SubSeq(s, 1, Len(s) - 1))
    ELSE s

\* tile.lower() of a token
Lower(tile) ==
    [k \in DOMAIN tile |->
        CASE tile[k] = "C" -> "c" [] tile[k] = "R" -> "r" [] tile[k] = "B" -> "b"
          [] tile[k] = "A" -> "a" [] tile[k] = "W" -> "w" [] OTHER -> tile[k]]

\* Field.__init__(self, width, height, tilesize) called with the positional
\* arguments args (core.py 739-750): all three are required
Field__init__(args) ==
    IF Len(args) # 3 THEN [exc |-> "TypeError", field |-> EmptyField]
    ELSE [exc |-> "None",
          field |-> [ width |-> args[1], height |-> args[2], tilesize |-> args[3],
                      walls |-> <<>>, wallrects |-> <<>>, controlpoints |-> <<>>,
                      spawns_red |-> <<>>, spawns_blue |-> <<>>, other_objects |-> <<>> ]]

\* s[i][j] = ch for every (j, i, ...) of tiles (core.py 780-787)
RECURSIVE Mark(_, _, _)
Mark(s, tiles, ch) ==
    IF tiles = <<>> THEN s
    ELSE Mark([s EXCEPT ![Head(tiles)[2] + 1][Head(tiles)[1] + 1] = ch], Tail(tiles), ch)

\* Field.__str__ (core.py 774-788) of the field f whose attribute ammo is set
\* or not
Field__str__(f, ammo) ==
    LET s0 == [r \in DOMAIN f.walls |->
                  [c \in DOMAIN f.walls[r] |-> IF f.walls[r][c] # 0 THEN "w" ELSE "_"]]
        s1 == Mark(s0, f.controlpoints, "C")
    IN IF ~ammo.set THEN [exc |-> "AttributeError", rows |-> <<>>]
       ELSE LET s4 == Mark(Mark(Mark(s1, ammo.tiles, "A"), f.spawns_red, "R"), f.spawns_blue, "B")
            IN [exc |-> "None",
                rows |-> Join([r \in DOMAIN s4 |-> Join([c \in DOMAIN s4[r] |-> <<s4[r][c]>>], <<" ">>)],
                              <<"\n">>)]

\* the loop of from_string over the tokens (core.py 758-770) on the field and
\* the ammo attribute made before: the tiles of a kind in reading order
TilesOfKind(lines, kind) ==
    LET row(i) == SelectSeq([j \in DOMAIN lines[i] |-> <<j - 1, i - 1, Lower(lines[i][j])>>],
                            LAMBDA e : e[3] = <<kind>>)
    IN Flatten([i \in DOMAIN lines |-> row(i)])

\* Field.from_string (core.py 752-772): the field is made by cls(), without
\* arguments
from_string(s) ==
    LET made == Field__init__(<<>>)
        lines == [i \in DOMAIN SplitOn(Strip(s), "\n", <<>>) |->
                     Words(SplitOn(Strip(s), "\n", <<>>)[i])]
        a == TilesOfKind(lines, "a")
        xy(q) == [k \in DOMAIN q |-> <<q[k][1], q[k][2]>>]
    IN IF made.exc # "None" THEN [exc |-> made.exc, field |-> EmptyField, ammo |-> NoAmmo]
       ELSE IF a # <<>> THEN \* field.ammo of a new Field
               [exc |-> "AttributeError", field |-> EmptyField, ammo |-> NoAmmo]
       ELSE [exc |-> "None", ammo |-> NoAmmo,
             field |-> [made.field EXCEPT
                 !.height = Len(lines), !.width = Len(lines[1]),
                 !.walls = [i \in DOMAIN lines |->
                              [j \in DOMAIN lines[i] |-> IF lines[i][j] = <<"w">> THEN 1 ELSE 0]],
                 !.controlpoints = xy(TilesOfKind(lines, "c")),
                 !.spawns_red = [k \in DOMAIN TilesOfKind(lines, "r") |->
                                    <<TilesOfKind(lines, "r")[k][1], TilesOfKind(lines, "r")[k][2], 0>>],
                 !.spawns_blue = [k \in DOMAIN TilesOfKind(lines, "b") |->
                                    <<TilesOfKind(lines, "b")[k][1], TilesOfKind(lines, "b")[k][2], -2>>]]]

\* str(f)
FieldStr ==
    /\ io.pc = "str"
    /\ LET r == Field__str__(io.f, io.ammo)
       IN io' = IF r.exc # "None" THEN [io EXCEPT !.pc = "raised", !.exc = r.exc]
                ELSE [io EXCEPT !.pc = "parse", !.text = r.rows]
    /\ UNCHANGED << ctor, gen, sep, phys, entity, env, trace, gameVars >>

\* Field.from_string of the text
FieldFromString ==
    /\ io.pc = "parse"
    /\ LET r == from_string(io.text)
       IN io' = IF r.exc # "None" THEN [io EXCEPT !.pc = "raised", !.exc = r.exc]
                ELSE [io EXCEPT !.pc = "done", !.out = r.field, !.out_ammo = r.ammo]
    /\ UNCHANGED << ctor, gen, sep, phys, entity, env, trace, gameVars >>

\* the fields that are written: every wall grid of MaxCols x MaxRows tiles,
\* with or without a control point, a red and a blue spawn, made by the
\* constructor (no attribute ammo) or given a list ammo by the caller
TextFields ==
    { [ Field__init__(<<MaxCols, MaxRows, 16>>).field EXCEPT
          !.walls = w, !.controlpoints = cp, !.spawns_red = sr, !.spawns_blue = sb ] :
        w \in [1..MaxRows -> [1..MaxCols -> {0, 1}]],
        cp \in {<<>>, <<<<1, 0>>>>}, sr \in {<<>>, <<<<0, 0, 0>>>>},
        sb \in {<<>>, <<<<MaxCols - 1, 0, -2>>>>} }

InitText ==
    /\ ctor = IdleCtor
    /\ gen = IdleGen
    /\ sep = IdleSep
    /\ entity = NoEntity
    /\ phys = IdlePhys
    /\ \E f \in TextFields,
          am \in {NoAmmo, [set |-> TRUE, tiles |-> <<>>], [set |-> TRUE, tiles |-> <<<<1, 1>>>>]} :
          io = [IdleIo EXCEPT !.pc = "str", !.f = f, !.ammo = am]
    /\ env = Env({}, {}, {}, {}, {})
    /\ InitGame(BaseArgs, EmptyField, FALSE)

NextText == FieldStr \/ FieldFromString

SpecText == InitText /\ [][NextText]_vars

\* C24 as stated: for any Field f, Field.from_string(str(f)) yields a field
\* with the same width, height, wall grid, control-point tiles, red spawn
\* tiles, blue spawn tiles and ammo tiles as f.
C24_AsStated ==
    /\ io.pc # "raised"
    /\ io.pc = "done" =>
          /\ io.out.width = io.f.width /\ io.out.height = io.f.height
          /\ io.out.walls = io.f.walls
          /\ TilesOf(io.out.controlpoints) = TilesOf(io.f.controlpoints)
          /\ TilesOf(io.out.spawns_red) = TilesOf(io.f.spawns_red)
          /\ TilesOf(io.out.spawns_blue) = TilesOf(io.f.spawns_blue)
          /\ io.out_ammo.set /\ TilesOf(io.out_ammo.tiles) = TilesOf(io.ammo.tiles)

(***************************************************************************)
(* One control point between its updates: ControlPoint.collide and         *)
(* ControlPoint.update in any order (specification SpecTally)              *)
(***************************************************************************)
\* the touches of the control point that are followed in one tally cycle
MaxTouches == 3

\* ControlPoint.collide(tank) on control point 1 for a tank of team T, as
\* Game.substep calls it for an overlapping pair (core.py 510-512)
TouchPoint ==
    /\ pc = "ready"
    /\ Len(trace.cycle) < MaxTouches
    /\ \E T \in {TEAM_RED, TEAM_BLUE} :
          /\ controlpoints' = [controlpoints EXCEPT
                                 ![1] = ControlPoint_collide(@, T, settings.capture_mode)]
          /\ trace' = [trace EXCEPT !.cycle = Append(@, T), !.touched = TRUE]
    /\ UNCHANGED << ctor, gen, sep, phys, entity, io, env, field, settings, record, replay, state,
                    interrupted, step, score_red, score_blue, stats, agent_raised_exception,
                    objects, broadphase_mov, broadphase_stat, tanks, fountains, ammos, log,
                    pc, ti, sub, exc, hist >>

\* ControlPoint.update() on control point 1, as Game.run calls it once per
\* step (core.py 318-319)
TallyPoint ==
    /\ pc = "ready"
    /\ LET u == ControlPoint_update(controlpoints[1], score_red, score_blue, settings.max_score)
       IN /\ controlpoints' = [controlpoints EXCEPT ![1] = u.cp]
          /\ score_red' = u.score_red
          /\ score_blue' = u.score_blue
    /\ trace' = [trace EXCEPT !.cycle = <<>>]
    /\ UNCHANGED << ctor, gen, sep, phys, entity, io, env, field, settings, record, replay, state,
                    interrupted, step, stats, agent_raised_exception, objects, broadphase_mov,
                    broadphase_stat, tanks, fountains, ammos, log, pc, ti, sub, exc, hist >>

\* a game of every capture mode on the test field, set up and not run
InitTally ==
    /\ ctor = IdleCtor
    /\ gen = IdleGen
    /\ sep = IdleSep
    /\ entity = NoEntity
    /\ io = IdleIo
    /\ phys = IdlePhys
    /\ env = Env([raised : {FALSE}, dur : {0}], Prompt({NoOp}), {"ControlPoint"}, {}, {FALSE})
    /\ \E st \in MatchSettings({ENDGAME_NONE}) : InitGame(st, TestField, FALSE)

NextTally == Setup \/ TouchPoint \/ TallyPoint

SpecTally == InitTally /\ [][NextTally]_vars

TouchStep == Len(trace'.cycle) = Len(trace.cycle) + 1

\* C26: in neutral-on-contest capture mode, a touch by a tank of team T on a
\* point whose current owner U differs from T and has a non-zero tally in the
\* current cycle makes the point neutral and changes no tally; every other
\* touch by a tank of team T makes T the owner and increments T's tally.
C26_NeutralOnContest ==
    [][ (settings.capture_mode = CAPTURE_MODE_NEUTRAL /\ TouchStep) =>
          LET cp == controlpoints[1]
              T == trace'.cycle[Len(trace'.cycle)]
              U == cp.team
          IN IF U # T /\ cp.collided[U + 1] # 0
             THEN /\ controlpoints'[1].team = TEAM_NEUTRAL
                  /\ controlpoints'[1].collided = cp.collided
             ELSE /\ controlpoints'[1].team = T
                  /\ controlpoints'[1].collided = [cp.collided EXCEPT ![T + 1] = @ + 1] ]_vars

\* in neutral-on-contest mode a point was captured by red, neutralized by a
\* blue tank and captured by the next blue tank
C26_ContestedAndRetaken ==
    /\ settings.capture_mode = CAPTURE_MODE_NEUTRAL
    /\ trace.cycle = <<TEAM_RED, TEAM_BLUE, TEAM_BLUE>>
    /\ controlpoints[1].team = TEAM_BLUE
    /\ controlpoints[1].collided = <<1, 1, 0>>

(***************************************************************************)
(* Shot tanks (specification SpecRespawn)                                  *)
(***************************************************************************)
\* uninterrupted matches of MaxSteps + 2 steps with a spawn time of 0 or 1
\* step, with and without the score as end condition, of prompt, faultless
\* delegates that turn, drive and shoot in every step; the tanks reach the
\* control point and the ammo
InitRespawn ==
    /\ ctor = IdleCtor
    /\ gen = IdleGen
    /\ sep = IdleSep
    /\ entity = NoEntity
    /\ io = IdleIo
    /\ phys = IdlePhys
    /\ env = Env([raised : {FALSE}, dur : {0}], Prompt({<<1, 1, TRUE>>}),
                 {"ControlPoint", "Ammo"}, {}, {FALSE})
    /\ \E sp \in 0..1, ec \in {ENDGAME_NONE, ENDGAME_SCORE} :
          InitGame(Settings__init__([BaseArgs EXCEPT !.max_steps = MaxSteps + 2,
                                                     !.spawn_time = sp,
                                                     !.end_condition = ec]).self,
                   TestField, FALSE)

NextRespawn ==
    \/ Setup
    \/ Start
    \/ BeginStep
    \/ Sense
    \/ Think
    \/ Shoot
    \/ CheckEnd
    \/ PrepareMove
    \/ Substep
    \/ FinishStep
    \/ End
    \/ Finalize

SpecRespawn == InitRespawn /\ [][NextRespawn]_vars

\* tank t is at its spawn as core.py 379-383 puts it there
AtSpawn(t) ==
    /\ t.ammo = 0
    /\ t.x = t.spawn.x + 2 /\ t.y = t.spawn.y + 2
    /\ t.x_ = t.x * Substeps /\ t.y_ = t.y * Substeps
    /\ t.dx_ = 0 /\ t.dy_ = 0
    /\ t.angle = t.spawn.angle

\* the action of tank u was ignored: t is the tank before get_action
Ignored(t, u) ==
    u.x = t.x /\ u.y = t.y /\ u.angle = t.angle /\ u.ammo = t.ammo /\ ~u.shoots

\* the steps in which the actions of tank i are ignored after its last hit
DownSteps(i) == (HitAt(i) + 1)..(HitAt(i) + settings.spawn_time)

\* what C27 says of the steps that go on after the shots: a tank hit in this
\* step is put to its spawn when the movement is prepared; a tank is asked
\* for its action while it is down exactly in the steps s+1 .. s+spawn_time
\* after its last hit at step s, its action is ignored then, and otherwise
\* it turns, drives and shoots as its delegate says
RespawnStep ==
    /\ (pc = "move" /\ pc' = "substep") =>
          \A i \in DOMAIN tanks : HitAt(i) = step => AtSpawn(tanks'[i])
    /\ (pc = "think" /\ hist'[ti].done) =>
          LET down == HitAt(ti) > 0 /\ step \in DownSteps(ti)
          IN /\ down <=> tanks[ti].respawn_in # -1
             /\ down => Ignored(tanks[ti], tanks'[ti])
             /\ (~down /\ hist'[ti].got = <<1, 1, TRUE>>) =>
                   /\ tanks'[ti].angle = tanks[ti].angle + 1
                   /\ <<tanks'[ti].x, tanks'[ti].y>> # <<tanks[ti].x, tanks[ti].y>>
                   /\ tanks'[ti].shoots <=> tanks[ti].ammo > 0

SIMULATION_MAXITER == 10

Half == 2 ^ SIMULATION_MAXITER
Unit == 2 * Half

\* width and height of an object of the row: 2.0
Size == 2 * Unit

\* largest position of an object of the row, in halves
MaxPos == 5

\* GameObject.__init__ (core.py 967-990) as Tank, Wall and Ammo call it
PhysObject(kind, id, x, dx) ==
    [ kind |-> kind, id |-> id, x_ |-> x, y_ |-> 0, dx_ |-> dx, dy_ |-> 0,
      width |-> Size, height |-> Size,
      shape |-> IF kind = "Wall" THEN SHAPE_RECT ELSE SHAPE_CIRC,
      solid |-> kind # "Ammo", movable |-> kind = "Tank", moved |-> FALSE,
      collided |-> FALSE, pickedup |-> FALSE, ammo |-> 0 ]

\* core.py 436-442: the movable objects are moved by their _dx and _dy
SubstepMove ==
    /\ phys.pc = "call"
    /\ phys' = [phys EXCEPT
                  !.pc = "loop",
                  !.objs = [i \in DOMAIN @ |->
                              IF i \in Range(phys.mov)
                              THEN [@[i] EXCEPT !.x_ = @ + phys.objs[i].dx_,
                                                !.y_ = @ + phys.objs[i].dy_,
                                                !.moved = TRUE]
                              ELSE @[i]],
                  !.something_collided = TRUE,
                  !.iteration = SIMULATION_MAXITER,
                  !.pairs = {}]
    /\ UNCHANGED << ctor, gen, sep, entity, io, env, trace, gameVars >>

\* core.py 456 and 477: the bounding boxes intersect in y too
YIntersect(o1, o2) == o2.y_ < o1.y_ + o1.height /\ o1.y_ < o2.y_ + o2.height

\* core.py 448-461: the movable objects from position b on for the one at
\* position a of the sorted list; the pairs that are found to overlap.  The
\* flag _moved of the two is the one of the start of the iteration, since
\* core.py 483 clears it at the end of an object's own turn.
RECURSIVE mov_scan(_, _, _, _)
mov_scan(objs, mov, a, b) ==
    IF b > Len(mov) THEN {}
    ELSE LET o1 == objs[mov[a]]
             o2 == objs[mov[b]]
         IN IF o2.moved \/ o1.moved
            THEN IF o2.x_ >= o1.x_ + o1.width THEN {}
                 ELSE (IF YIntersect(o1, o2) /\ ~compute_separation(o1, o2).none
                       THEN {<<mov[a], mov[b]>>} ELSE {})
                      \cup mov_scan(objs, mov, a, b + 1)
            ELSE mov_scan(objs, mov, a, b + 1)

\* core.py 464-482: the static objects from position j on for the movable
\* object o, with the marker k and the flag sf; the pairs found and the marker
RECURSIVE stat_scan(_, _, _, _, _, _)
stat_scan(objs, stat, o, j, k, sf) ==
    IF j > Len(stat) THEN [found |-> {}, k |-> k]
    ELSE LET o1 == objs[o]
             o2 == objs[stat[j]]
         IN IF o2.x_ + o2.width <= o1.x_
            THEN stat_scan(objs, stat, o, j + 1, IF sf THEN k + 1 ELSE k, sf)
            ELSE IF o2.x_ >= o1.x_ + o1.width THEN [found |-> {}, k |-> k]
            ELSE LET rest == stat_scan(objs, stat, o, j + 1, k, FALSE)
                 IN [ found |-> (IF YIntersect(o1, o2) /\ ~compute_separation(o1, o2).none
                                 THEN {<<o, stat[j]>>} ELSE {}) \cup rest.found,
                      k |-> rest.k ]

\* core.py 447-483: the pairs <<o1, o2>> for which compute_separation gave a
\* separation, from position a of the sorted list on
RECURSIVE broadphase(_, _, _, _, _)
broadphase(objs, mov, stat, a, k) ==
    IF a > Len(mov) THEN {}
    ELSE LET o == mov[a]
             ms == IF objs[o].moved THEN stat_scan(objs, stat, o, k + 1, k, TRUE)
                   ELSE [found |-> {}, k |-> k]
         IN mov_scan(objs, mov, a, a + 1) \cup ms.found
            \cup broadphase(objs, mov, stat, a + 1, ms.k)

\* the tuple (p, object1, object2, px, py) of core.py 649 for the pair f
collision(objs, f) ==
    LET r == compute_separation(objs[f[1]], objs[f[2]])
    IN [ p |-> r.p, o1 |-> IF r.swapped THEN f[2] ELSE f[1],
         o2 |-> IF r.swapped THEN f[1] ELSE f[2], px |-> r.px, py |-> r.py ]

\* core.py 461 and 482: the pair with the object of the smaller id first
id_ordered(objs, f) == IF objs[f[1]].id < objs[f[2]].id THEN f ELSE <<f[2], f[1]>>

\* core.py 461, 482 without the set that is kept over the iterations: the
\* pairs of the latest iteration only
add_pairs_latest(pairs, objs, found) == { id_ordered(objs, f) : f \in found }
\* core.py 442, 461, 482: the pairs found are added to the set
add_pairs(pairs, objs, found) == pairs \cup { id_ordered(objs, f) : f \in found }

\* the order of core.py 486 on two tuples: c comes before d
SortsBefore(objs, c, d) ==
    \/ c.p > d.p
    \/ c.p = d.p /\ objs[c.o1].id > objs[d.o1].id
    \/ c.p = d.p /\ c.o1 = d.o1 /\ objs[c.o2].id > objs[d.o2].id

\* core.py 486: collisions.sort(reverse=True)
RECURSIVE sort_reverse(_, _)
sort_reverse(objs, C) ==
    IF C = {} THEN <<>>
    ELSE LET c == CHOOSE c \in C : \A d \in C \ {c} : SortsBefore(objs, c, d)
         IN <<c>> \o sort_reverse(objs, C \ {c})

\* a faulty variant of core.py 491-508 that takes the first object of the
\* tuple for the movable one when the two cannot both be moved
separate_first(objs, c) ==
    IF objs[c.o1].movable /\ objs[c.o2].movable
    THEN [objs EXCEPT ![c.o1] = [@ EXCEPT !.x_ = @ + c.px \div 2, !.y_ = @ + c.py \div 2,
                                          !.moved = TRUE],
                      ![c.o2] = [@ EXCEPT !.x_ = @ - c.px \div 2, !.y_ = @ - c.py \div 2,
                                          !.moved = TRUE]]
    ELSE [objs EXCEPT ![c.o1] = [@ EXCEPT !.x_ = @ + c.px, !.y_ = @ + c.py, !.moved = TRUE]]
\* core.py 491-508 for one tuple
separate(objs, c) ==
    IF objs[c.o1].movable
    THEN IF objs[c.o2].movable
         THEN [objs EXCEPT ![c.o1] = [@ EXCEPT !.x_ = @ + c.px \div 2, !.y_ = @ + c.py \div 2,
                                               !.moved = TRUE],
                           ![c.o2] = [@ EXCEPT !.x_ = @ - c.px \div 2, !.y_ = @ - c.py \div 2,
                                               !.moved = TRUE]]
         ELSE [objs EXCEPT ![c.o1] = [@ EXCEPT !.x_ = @ + c.px, !.y_ = @ + c.py, !.moved = TRUE]]
    ELSE [objs EXCEPT ![c.o2] = [@ EXCEPT !.x_ = @ - c.px, !.y_ = @ - c.py, !.moved = TRUE]]

\* core.py 487-508 without the test of core.py 490: every tuple is handled
RECURSIVE resolve_all(_, _)
resolve_all(objs, cs) ==
    IF cs = <<>> THEN objs
    ELSE IF Head(cs).p < Unit THEN objs
    ELSE resolve_all(separate(objs, Head(cs)), Tail(cs))
\* core.py 487-508: the tuples are handled in their order
RECURSIVE resolve(_, _)
resolve(objs, cs) ==
    IF cs = <<>> THEN objs
    ELSE IF Head(cs).p < Unit THEN objs
    ELSE IF ~objs[Head(cs).o1].moved /\ ~objs[Head(cs).o2].moved
         THEN resolve(separate(objs, Head(cs)), Tail(cs))
         ELSE resolve(objs, Tail(cs))

\* core.py 443-509: one iteration of the loop
SubstepIterate ==
    /\ phys.pc = "loop"
    /\ phys.something_collided /\ phys.iteration > 0
    /\ LET mov == SortByKey(phys.mov, [i \in Range(phys.mov) |-> phys.objs[i].x_])
           found == broadphase(phys.objs, mov, phys.stat, 1, 0)
           cleared == [i \in DOMAIN phys.objs |->
                         IF i \in Range(mov) THEN [phys.objs[i] EXCEPT !.moved = FALSE]
                         ELSE phys.objs[i]]
           collisions == sort_reverse(phys.objs,
                            { collision(phys.objs, f) :
                                f \in { g \in found : phys.objs[g[1]].solid /\ phys.objs[g[2]].solid } })
       IN phys' = [phys EXCEPT
                     !.mov = mov,
                     !.objs = resolve(cleared, collisions),
                     !.something_collided = Len(collisions) > 0,
                     !.iteration = @ - 1,
                     !.pairs = add_pairs(@, phys.objs, found),
                     !.collisions = collisions,
                     !.found = Append(@, found)]
    /\ UNCHANGED << ctor, gen, sep, entity, io, env, trace, gameVars >>

\* o.collide(other) of Tank (core.py 1155-1159), Ammo (core.py 1229-1237) and
\* Crumb (core.py 1251-1258), both with rem_object and without the counters
\* of the teams, and the other classes
\* (core.py 1011-1014) on the record of the substep
collide(s, o, other) ==
    LET s1 == [s EXCEPT !.calls = Append(@, <<o, other>>)]
    IN CASE s.objs[o].kind = "Tank" /\ s.objs[other].kind \in {"Tank", "Wall"} ->
              [s1 EXCEPT !.objs[o].collided = TRUE]
         [] s.objs[o].kind = "Ammo" /\ ~s.objs[o].pickedup /\ s.objs[other].kind = "Tank" ->
              [s1 EXCEPT !.objs[other].ammo = @ + BaseArgs.ammo_amount,
                         !.objs[o].pickedup = TRUE,
                         !.stat = Remove(@, o)]
         [] s.objs[o].kind = "Crumb" /\ ~s.objs[o].pickedup /\ s.objs[other].kind = "Tank" ->
              [s1 EXCEPT !.objs[o].pickedup = TRUE, !.stat = Remove(@, o)]
         [] OTHER -> s1

\* core.py 510-512 for the pairs in the order ps
RECURSIVE collide_pairs(_, _)
collide_pairs(s, ps) ==
    IF ps = <<>> THEN s
    ELSE collide_pairs(collide(collide(s, Head(ps)[1], Head(ps)[2]), Head(ps)[2], Head(ps)[1]),
                       Tail(ps))

\* core.py 510-512: the loop is over; the pairs of the set in any order
SubstepCollide ==
    /\ phys.pc = "loop"
    /\ ~(phys.something_collided /\ phys.iteration > 0)
    /\ \E order \in Orders(phys.pairs) :
          phys' = [collide_pairs(phys, order) EXCEPT !.pc = "done"]
    /\ UNCHANGED << ctor, gen, sep, entity, io, env, trace, gameVars >>

\* the numberings of three objects
Ids == { p \in [1..3 -> 1..3] : \A i, j \in 1..3 : p[i] = p[j] => i = j }

\* a tank that stands or drives to the right by half a length, a second tank
\* that stands or drives to the left or a wall, and a third object: a tank, a
\* wall or an ammo pack; the lists are sorted as add_object (core.py 514-525)
\* leaves them
InitSubstep ==
    /\ ctor = IdleCtor
    /\ gen = IdleGen
    /\ sep = IdleSep
    /\ entity = NoEntity
    /\ io = IdleIo
    /\ env = Env({}, {}, {}, {}, {})
    /\ InitGame(BaseArgs, EmptyField, FALSE)
    /\ \E id \in Ids, second \in {"Tank", "Wall"}, third \in {"Tank", "Wall", "Ammo"},
          x1 \in 0..MaxPos, x2 \in 0..MaxPos, x3 \in 0..MaxPos,
          d1 \in {0, 1}, d2 \in {0, -1} :
          LET objs == << PhysObject("Tank", id[1], x1 * Half, d1 * Half),
                         PhysObject(second, id[2], x2 * Half,
                                    IF second = "Tank" THEN d2 * Half ELSE 0),
                         PhysObject(third, id[3], x3 * Half, 0) >>
              idx(m) == SelectSeq(<<1, 2, 3>>, LAMBDA i : objs[i].movable = m)
          IN phys = [IdlePhys EXCEPT
                       !.pc = "call", !.objs = objs,
                       !.mov = SortByKey(idx(TRUE), [i \in 1..3 |-> objs[i].x_]),
                       !.stat = SortByKey(idx(FALSE), [i \in 1..3 |-> objs[i].x_])]

NextSubstep == SubstepMove \/ SubstepIterate \/ SubstepCollide

SpecSubstep == InitSubstep /\ [][NextSubstep]_vars

(***************************************************************************)
(* The calls of collide in a substep (specification SpecSubstep)           *)
(***************************************************************************)
\* the number of calls o.collide(other) in the list cs
Calls(cs, o, other) == Cardinality({ i \in DOMAIN cs : cs[i] = <<o, other>> })

\* the pairs <<o1, o2>> found overlapping in iteration n of the substep
FoundIn(n) == phys.found[n] \cup { <<f[2], f[1]>> : f \in phys.found[n] }

\* the position of every object
Positions(objs) == [i \in DOMAIN objs |-> <<objs[i].x_, objs[i].y_>>]

CollideStep ==
    /\ phys'.pc = "loop" => phys'.calls = <<>>
    /\ (phys.pc = "loop" /\ phys'.pc = "done") =>
          /\ Positions(phys'.objs) = Positions(phys.objs)
          /\ \A n \in DOMAIN phys.found : \A f \in FoundIn(n) :
                Calls(phys'.calls, f[1], f[2]) = 1
    /\ phys.pc = "done" => phys'.objs = phys.objs

\* C28: in each substep, for every unordered pair of objects found overlapping
\* in any solver iteration of that substep (solid or not), collide is called
\* exactly once on each of the two objects with the other as argument, after
\* all positional correction of that substep, even when the pair was
\* detected in several iterations.
C28_CollideOncePerSide == [][CollideStep]_vars

\* a tank and an ammo pack (not solid) were found overlapping in two
\* iterations of a substep that is over
C28_FoundTwice ==
    /\ phys.pc = "done"
    /\ \E m, n \in DOMAIN phys.found :
          /\ m < n
          /\ \E f \in FoundIn(m) \cap FoundIn(n) : phys.objs[f[2]].kind = "Ammo"

(***************************************************************************)
(* One iteration of the solver (specification SpecSubstep)                 *)
(***************************************************************************)
\* the objects that the correction of the tuple c moves
MovedBy(objs, c) == { o \in {c.o1, c.o2} : objs[o].movable }

\* the positions in the sorted list cs of the tuples that are corrected: those
\* with a penetration of at least least and without an object moved by a
\* tuple corrected before
CorrectedIn(objs, cs, least) ==
    LET corr[n \in 0..Len(cs)] ==
            IF n = 0 THEN {}
            ELSE IF /\ cs[n].p >= least
                    /\ ~\E m \in corr[n - 1] : MovedBy(objs, cs[m]) \cap {cs[n].o1, cs[n].o2} # {}
                 THEN corr[n - 1] \cup {n}
                 ELSE corr[n - 1]
    IN corr[Len(cs)]

\* what the correction of the tuple c adds to the position of its object o:
\* half of the vector for each of two movable objects, in opposite directions,
\* and the full vector for the movable one of a movable and a static object
Displacement(objs, c, o) ==
    LET sign == IF o = c.o1 THEN 1 ELSE -1
    IN IF objs[c.o1].movable /\ objs[c.o2].movable
       THEN <<sign * (c.px \div 2), sign * (c.py \div 2)>>
       ELSE IF objs[o].movable THEN <<sign * c.px, sign * c.py>>
       ELSE <<0, 0>>

\* a step of the loop handled the list of collisions as C29 says, correcting
\* the tuples with a penetration of at least least
IterationStep(least) ==
    (phys.pc = "loop" /\ phys'.pc = "loop") =>
        LET cs == phys'.collisions
            K == CorrectedIn(phys.objs, cs, least)
        IN /\ \A n \in DOMAIN cs : phys.objs[cs[n].o1].solid /\ phys.objs[cs[n].o2].solid
           /\ \A m, n \in DOMAIN cs : m < n => cs[m].p >= cs[n].p
           /\ \A o \in DOMAIN phys.objs :
                 LET at == Positions(phys.objs)[o]
                     by == IF \E n \in K : o \in MovedBy(phys.objs, cs[n])
                           THEN Displacement(phys.objs,
                                             cs[CHOOSE n \in K : o \in MovedBy(phys.objs, cs[n])], o)
                           ELSE <<0, 0>>
                 IN /\ Cardinality({ n \in K : o \in MovedBy(phys.objs, cs[n]) }) <= 1
                    /\ Positions(phys'.objs)[o] = <<at[1] + by[1], at[2] + by[2]>>
           /\ phys.iteration \in 1..SIMULATION_MAXITER
           /\ phys'.iteration = phys.iteration - 1
           /\ Len(phys'.found) <= SIMULATION_MAXITER

\* C29, amended: in each solver iteration, solid-solid collisions are
\* processed in non-increasing order of penetration, up to the first one with
\* a penetration below 1; a pair of two movable objects is corrected by
\* moving each by half of the separation vector in opposite directions, a
\* movable/static pair by moving only the movable object by the full vector,
\* and a pair containing an object already moved in this iteration is
\* skipped, so each object is displaced at most once per iteration and the
\* loop runs at most SIMULATION_MAXITER iterations per substep.
C29_SolverIteration == [][IterationStep(Unit)]_vars

\* C29 as stated: every collision without an object moved before in the
\* iteration is corrected, whatever its penetration
C29_AsStated == [][IterationStep(0)]_vars

\* an iteration corrected two tanks by half of the vector each and skipped
\* the collision of one of them with a wall
C29_SkippedMoved ==
    /\ phys.pc = "loop"
    /\ Len(phys.collisions) = 2
    /\ phys.collisions[2].p >= Unit
    /\ MovedBy(phys.objs, phys.collisions[1]) = {phys.collisions[1].o1, phys.collisions[1].o2}
    /\ MovedBy(phys.objs, phys.collisions[1]) \cap MovedBy(phys.objs, phys.collisions[2]) # {}
    /\ \E o \in {phys.collisions[2].o1, phys.collisions[2].o2} : ~phys.objs[o].movable

(***************************************************************************)
(* An AmmoFountain and its child: Ammo.collide of a tank and the updates   *)
(* of the objects in any order (specification SpecFountain)                *)
(***************************************************************************)
\* the updates of the objects that are followed
MaxUpdates == 6

\* the largest ammo_rate of the settings
MaxRate == 2

\* the number of updates that have observed the latest shortage of fountain k
ShortOf(k) == IF k \in DOMAIN trace.short THEN trace.short[k] ELSE 0

\* tank i and Ammo a overlap in a substep: collide on both sides, as
\* Game.substep calls it (core.py 510-512)
PickUpAmmo ==
    /\ pc = "ready"
    /\ \E i \in DOMAIN tanks, a \in DOMAIN ammos :
          /\ SetGame(CollidePair(GameRec, << <<"Tank", i>>, <<"Ammo", a>> >>, settings))
          /\ trace' = [trace EXCEPT
                          !.short = [k \in DOMAIN fountains |->
                                       IF ~ammos[a].pickedup /\ ammos[a].parent = k
                                       THEN 0 ELSE ShortOf(k)]]
    /\ UNCHANGED << ctor, gen, sep, phys, entity, io, env, field, settings, record, replay, state,
                    interrupted, step, agent_raised_exception, log, pc, ti, sub, exc, hist >>

\* "for o in self.objects: o.update()", as Game.run does once per step
\* (core.py 318-319)
UpdateObjects ==
    /\ pc = "ready"
    /\ trace.updates < MaxUpdates
    /\ SetGame(UpdateAll(GameRec, 1, field, settings))
    /\ trace' = [trace EXCEPT
                    !.updates = @ + 1,
                    !.short = [k \in DOMAIN fountains |->
                                 IF Len(fountains[k].children) < MIN_CHILDREN
                                 THEN ShortOf(k) + 1 ELSE 0]]
    /\ UNCHANGED << ctor, gen, sep, phys, entity, io, env, field, settings, record, replay, state,
                    interrupted, step, agent_raised_exception, log, pc, ti, sub, exc, hist >>

\* a game with an ammo_rate up to MaxRate on the test field, set up and not run
InitFountain ==
    /\ ctor = IdleCtor
    /\ gen = IdleGen
    /\ sep = IdleSep
    /\ entity = NoEntity
    /\ io = IdleIo
    /\ phys = IdlePhys
    /\ env = Env([raised : {FALSE}, dur : {0}], Prompt({NoOp}), {"Ammo"}, {}, {FALSE})
    /\ \E rate \in 0..MaxRate, amount \in 1..2 :
          InitGame(Settings__init__([BaseArgs EXCEPT !.ammo_rate = rate,
                                                     !.ammo_amount = amount]).self,
                   TestField, FALSE)

NextFountain == Setup \/ PickUpAmmo \/ UpdateObjects

SpecFountain == InitFountain /\ [][NextFountain]_vars

\* the live children of fountain F in the game after a step
LiveChildren(F) ==
    { a \in Range(F.children) : ~ammos'[a].pickedup /\ <<"Ammo", a>> \in Range(objects') }

\* an update of the objects treats every fountain as C30 says: the countdown
\* starts at ammo_rate in the first update that observes the shortage, the
\* update that is the ammo_rate-th after that one adds one child, and no
\* other update adds a child or starts a countdown
FountainStep ==
    (trace'.updates = trace.updates + 1) =>
        \A k \in DOMAIN fountains :
            LET F == fountains[k]
                G == fountains'[k]
                n == trace'.short[k]
            IN IF Len(F.children) < MIN_CHILDREN
               THEN /\ n = 1 => G.countdown = settings.ammo_rate
                    /\ IF n = settings.ammo_rate + 1
                       THEN /\ Len(G.children) = Len(F.children) + 1
                            /\ Cardinality(LiveChildren(G)) = Len(G.children)
                       ELSE G.children = F.children
               ELSE /\ G.children = F.children
                    /\ G.countdown = Max(F.countdown - 1, -1)

\* C30: after an AmmoFountain's only child is picked up, the fountain starts
\* its countdown at the first update that observes the shortage and spawns
\* exactly one replacement ammo_rate updates later (on that same update when
\* ammo_rate is 0); while it has MIN_CHILDREN live children it never starts a
\* countdown and never spawns.
C30_FountainRefills == [][FountainStep]_vars

\* with an ammo_rate of 2 the third update after the second pickup has just
\* spawned the third child of the fountain
C30_SecondRefill ==
    /\ settings.ammo_rate = 2
    /\ trace.updates = 6
    /\ ShortOf(1) = 3
    /\ Len(ammos) = 3
    /\ Len(fountains[1].children) = 1
    /\ fountains[1].countdown = 0

(***************************************************************************)
(* The states of a game (specification Spec)                               *)
(***************************************************************************)
\* C31 as stated: the game lifecycle follows NEW -> READY -> RUNNING ->
\* {ENDED, INTERRUPT}, with ENDED and INTERRUPT as alternative terminal
\* states of a run: a run that was interrupted finishes in state INTERRUPT
\* and a run that was not interrupted finishes in state ENDED.
C31_AsStated ==
    /\ pc = "new" => state = STATE_NEW
    /\ pc = "ready" => state = STATE_READY
    /\ pc \in LoopPcs => state = STATE_RUNNING
    /\ pc = "returned" => state = IF interrupted THEN STATE_INTERRUPT ELSE STATE_ENDED

(***************************************************************************)
(* The order of the collide callbacks (specification Spec)                 *)
(***************************************************************************)
\* what the callbacks of a substep decide: the owner and the tallies of the
\* control points, the ammo of the tanks, the ammo packs and the counters of
\* the pickups
Outcome(g) ==
    [ cps |-> g.cps, ammo |-> [i \in DOMAIN g.tanks |-> g.tanks[i].ammo],
      ammos |-> g.ammos, ammo_red |-> g.stats.ammo_red, ammo_blue |-> g.stats.ammo_blue ]

\* C32 as stated: the simulation is deterministic with respect to callback
\* order: for every capture mode, the control-point owners, tallies, credited
\* pickups and scores after a substep do not depend on the order in which the
\* set of colliding pairs is iterated to deliver collide callbacks.
C32_AsStated ==
    [][ (pc = "substep" /\ sub' = sub + 1) =>
           \A order \in Orders(Range(trace'.notified)) :
               Outcome(CollideAll(integrate(GameRec), order, settings)) =
                   [ cps |-> controlpoints', ammo |-> [i \in DOMAIN tanks' |-> tanks'[i].ammo],
                     ammos |-> ammos', ammo_red |-> stats'.ammo_red,
                     ammo_blue |-> stats'.ammo_blue ] ]_vars

(***************************************************************************)
(* The sum of the scores (specification SpecPoints)                        *)
(***************************************************************************)
\* C33: in every reachable state after setup(), score_red + score_blue =
\* max_score, for any number of control points and any sequence of captures.
C33_ScoresSumToMax ==
    state # STATE_NEW => score_red + score_blue = settings.max_score

\* a match with two control points that blue has taken to max_score
C33_BlueHasAll ==
    /\ pc = "returned"
    /\ Len(controlpoints) = 2
    /\ settings.max_score = 2
    /\ score_blue = 2
    /\ score_red = 0

(***************************************************************************)
(* The distance a tank is sent in one step (specification SpecAct)         *)
(***************************************************************************)
\* C34 as stated: for every action a delegate can return (including negative
\* speed values), the distance between a live tank's position before
\* get_action and its commanded target position after get_action is at most
\* max_speed.
C34_AsStated ==
    [][ (ThinkStep /\ tanks[ti].respawn_in = -1) =>
           LET dx == tanks'[ti].x - tanks[ti].x
               dy == tanks'[ti].y - tanks[ti].y
           IN dx * dx + dy * dy <= settings.max_speed * settings.max_speed ]_vars

(***************************************************************************)
(* A tank that plays back recorded actions (specification SpecPlayback)    *)
(*                                                                         *)
(* The tank is built as Tank.__init__ allows, Tank(x, y, angle, id,        *)
(* team=..., spawn=..., actions=a), with a an action list of a ReplayData.  *)
(* Tank.__init__ keeps the list it is given (core.py 1037), so the tank's   *)
(* actions and the ReplayData's entry are one list object: what get_action  *)
(* pops from the one (core.py 1121) is gone from the other.                 *)
(***************************************************************************)
\* the longest recorded action list
MaxRecorded == 3

\* the action lists of up to n recorded actions
Recorded(n) ==
    UNION { [1..k -> {NoOp, <<1, 1, TRUE>>, <<0, -1, FALSE>>, <<-1, 2, FALSE>>}] : k \in 0..n }

\* a ReplayData with one red action list (core.py 1362-1368, 422-423), and the
\* tank that setup's replay branch is to make of it (core.py 291-292)
InitPlayback ==
    /\ ctor = IdleCtor
    /\ gen = IdleGen
    /\ sep = IdleSep
    /\ entity = NoEntity
    /\ io = IdleIo
    /\ phys = IdlePhys
    /\ env = Env([raised : {FALSE}, dur : {0}], Prompt({NoOp}), {}, {}, {FALSE})
    /\ field = TestField
    /\ settings = Settings__init__(BaseArgs).self
    /\ record = FALSE
    /\ \E a \in Recorded(MaxRecorded) :
          LET s == get_objects(TestField).reds[1]
          IN /\ replay = [ReplayData(settings) EXCEPT !.field = TestField, !.actions_red = <<a>>]
             /\ tanks = << NewTank(<<s.x + 2, s.y + 2, s.angle, 0>>,
                                   [team |-> TEAM_RED, spawn |-> s, actions |-> a]).tank >>
    /\ state = STATE_NEW
    /\ interrupted = FALSE
    /\ step = 0
    /\ score_red = 0
    /\ score_blue = 0
    /\ stats = GameStats
    /\ agent_raised_exception = FALSE
    /\ objects = <<>>
    /\ broadphase_mov = <<>>
    /\ broadphase_stat = <<>>
    /\ controlpoints = <<>>
    /\ fountains = <<>>
    /\ ammos = <<>>
    /\ log = {}
    /\ pc = "playback"
    /\ ti = 1
    /\ sub = 0
    /\ exc = "None"
    /\ hist = <<>>
    /\ trace = NoTrace

\* Tank.get_action() of the tank while recorded actions are left
\* (core.py 1118-1149); the list it pops from is the ReplayData's
Playback ==
    /\ pc = "playback"
    /\ tanks[1].actions # <<>>
    /\ \E r \in env.action :
          LET res == get_action(tanks[1], settings, r)
          IN /\ tanks' = <<res.tank>>
             /\ replay' = [replay EXCEPT !.actions_red = <<res.tank.actions>>]
    /\ UNCHANGED << ctor, gen, sep, phys, entity, io, env, trace, field, settings, record, state,
                    interrupted, step, score_red, score_blue, stats, agent_raised_exception,
                    objects, broadphase_mov, broadphase_stat, controlpoints, fountains, ammos,
                    log, pc, ti, sub, exc, hist >>

NextPlayback == Playback

SpecPlayback == InitPlayback /\ [][NextPlayback]_vars

SIMULATION_SUBSTEPS == 10

\* Tank(x, y) (core.py 1019-1023) with the speed dx per substep that the step
\* gave it (core.py 360-362)
RowTank(id, x, y, dx) ==
    [PhysObject("Tank", id, x * Half, dx * Half) EXCEPT
       !.y_ = y * Unit, !.width = TankSIZE * Unit, !.height = TankSIZE * Unit]

\* Wall(x, y, width, height) for the merged rectangle of the wall tiles of a
\* column (core.py 799, 877-883)
ColumnWall(id, x, y, rows) ==
    [PhysObject("Wall", id, x * Unit, 0) EXCEPT
       !.y_ = y * Unit, !.width = 16 * Unit, !.height = rows * 16 * Unit]

\* tanks 1, 2, 3 in the row at y = 0, right of the wall column at x = 0..16:
\* the first and the third drive to the left, 4 or 8 a substep; tanks 4 and 5
\* stand in the rows at y = 32 and y = 64; the lists are sorted as add_object
\* leaves them
InitPress ==
    /\ ctor = IdleCtor
    /\ gen = IdleGen
    /\ sep = IdleSep
    /\ entity = NoEntity
    /\ io = IdleIo
    /\ env = Env({}, {}, {}, {}, {})
    /\ InitGame(BaseArgs, EmptyField, FALSE)
    /\ \E d1 \in {0, -8}, d3 \in {0, -8, -16}, x4 \in {31, 62, 80}, x5 \in {46, 100} :
          LET objs == << RowTank(1, 40, 0, d1), RowTank(2, 80, 0, 0), RowTank(3, 118, 0, d3),
                         RowTank(4, x4, 32, 0), RowTank(5, x5, 64, 0), ColumnWall(6, 0, -16, 7) >>
              idx(m) == SelectSeq(<<1, 2, 3, 4, 5, 6>>, LAMBDA i : objs[i].movable = m)
          IN phys = [IdlePhys EXCEPT
                       !.pc = "call", !.objs = objs,
                       !.mov = SortByKey(idx(TRUE), [i \in 1..6 |-> objs[i].x_]),
                       !.stat = SortByKey(idx(FALSE), [i \in 1..6 |-> objs[i].x_])]

\* core.py 385-389: the next substep of the step; the collisions and the
\* pairs of a call are its own
SubstepAgain ==
    /\ phys.pc = "done"
    /\ sub < SIMULATION_SUBSTEPS - 1
    /\ sub' = sub + 1
    /\ phys' = [phys EXCEPT !.pc = "call", !.collisions = <<>>, !.found = <<>>, !.calls = <<>>]
    /\ UNCHANGED << ctor, gen, sep, entity, io, env, trace, field, settings, record, replay, state,
                    interrupted, step, score_red, score_blue, stats, agent_raised_exception,
                    objects, broadphase_mov, broadphase_stat, tanks, controlpoints, fountains,
                    ammos, log, pc, ti, exc, hist >>

NextPress == SubstepMove \/ SubstepIterate \/ SubstepCollide \/ SubstepAgain

SpecPress == InitPress /\ [][NextPress]_vars

\* Game.get_objects_in_bounds (core.py 543-548 and 549-554) on one list, from
\* position i on: the objects it yields
RECURSIVE scan_bounds(_, _, _, _, _)
scan_bounds(objs, list, i, b, solid_only) ==
    IF i > Len(list) THEN {}
    ELSE LET o == objs[list[i]]
         IN IF o.x_ > b.xmax THEN {}
            ELSE (IF /\ ~solid_only \/ o.solid
                     /\ o.x_ + o.width > b.xmin
                     /\ b.ymin < o.y_ + o.height /\ o.y_ < b.ymax
                  THEN {list[i]} ELSE {})
                 \cup scan_bounds(objs, list, i + 1, b, solid_only)

\* Game.get_objects_in_bounds (core.py 539-554)
get_objects_in_bounds(s, b, solid_only) ==
    scan_bounds(s.objs, s.mov, 1, b, solid_only) \cup scan_bounds(s.objs, s.stat, 1, b, solid_only)

\* the list is ordered by ascending _x
Ascending(objs, list) ==
    \A i \in 1..(Len(list) - 1) : objs[list[i]].x_ <= objs[list[i + 1]].x_

\* the objects of the lists whose bounding box intersects the bounds b
InBounds(s, b) ==
    { i \in Range(s.mov) \cup Range(s.stat) :
        /\ s.objs[i].x_ <= b.xmax /\ s.objs[i].x_ + s.objs[i].width > b.xmin
        /\ b.ymin < s.objs[i].y_ + s.objs[i].height /\ s.objs[i].y_ < b.ymax }

\* the bounds raycast takes (core.py 656-662) for the shot of the tank o
\* straight along y, up or down, over the range r (core.py 326-330)
ShotBounds(o, up, r) ==
    LET tcx == o.x_ + o.width \div 2
        tcy == o.y_ + o.height \div 2
    IN [ xmin |-> tcx, xmax |-> tcx,
         ymin |-> IF up THEN tcy - r * Unit ELSE tcy,
         ymax |-> IF up THEN tcy ELSE tcy + r * Unit ]

\* the substeps of the step are done: the next call of get_objects_in_bounds
\* is the one of the next step's observations
StepSimulated == phys.pc = "done" /\ sub = SIMULATION_SUBSTEPS - 1

\* C36 as stated: whenever get_objects_in_bounds is called (when observations
\* are built and when shots are raycast), broadphase_mov and broadphase_stat
\* are each ordered by ascending _x, so its early-exit scan returns every
\* object whose bounding box intersects the query bounds; this holds after
\* any sequence of substeps, including substeps that exhaust the iteration
\* budget.  The calls are the ones of the shots straight up and down.
C36_AsStated ==
    StepSimulated =>
        /\ Ascending(phys.objs, phys.mov)
        /\ Ascending(phys.objs, phys.stat)
        /\ \A i \in Range(phys.mov), up \in BOOLEAN :
              get_objects_in_bounds(phys, ShotBounds(phys.objs[i], up, 60), TRUE)
                  = InBounds(phys, ShotBounds(phys.objs[i], up, 60))

(***************************************************************************)
(* The collided field of the observation (specification SpecBump)          *)
(***************************************************************************)
\* matches of MaxSteps + 1 steps of delegates that stand still, whose tanks
\* meet each other and the wall; an interrupt may arrive between two steps
InitBump ==
    /\ ctor = IdleCtor
    /\ gen = IdleGen
    /\ sep = IdleSep
    /\ entity = NoEntity
    /\ io = IdleIo
    /\ phys = IdlePhys
    /\ env = Env([raised : {FALSE}, dur : {0}], Prompt({NoOp}), {"Tank", "Wall"}, {"loop"}, {FALSE})
    /\ InitGame(Settings__init__([BaseArgs EXCEPT !.max_steps = MaxSteps + 1,
                                                  !.end_condition = ENDGAME_NONE]).self,
                TestField, FALSE)

SpecBump == InitBump /\ [][Next]_vars

\* C37 as stated: the collided field of the Observation delivered to a tank
\* at step s is True if and only if that tank collided with a tank or a wall
\* during step s-1; it is False again on a step that follows a step without
\* such a collision.
C37_AsStated ==
    pc = "sense" =>
        \A i \in DOMAIN tanks : tanks[i].collided <=> i \in trace.bumped

(***************************************************************************)
(* Fountains of hand-made fields (specification SpecSpawn)                 *)
(***************************************************************************)
\* Fields made by hand ("Any way to create a Field is fine", core.py 736):
\* TestField, TestField with a wall on the tile of the ammo fountain, and
\* TestField with the ammo fountain on a tile right of, or below, the field
SpawnFields ==
    LET Walled == [TestField EXCEPT !.walls = << <<0, 0, 1, 0, 1>> >>,
                                    !.wallrects = << <<32, 0, 16, 16>>, <<64, 0, 16, 16>> >>]
        Outside(x, y) == [TestField EXCEPT !.other_objects = << <<x, y, "AmmoFountain">> >>]
    IN {TestField, Walled, Outside(5, 0), Outside(2, 1)}

\* matches on these fields, of prompt, faultless delegates that drive, turn
\* and shoot; an interrupt may arrive between two steps
InitSpawn ==
    /\ ctor = IdleCtor
    /\ gen = IdleGen
    /\ sep = IdleSep
    /\ entity = NoEntity
    /\ io = IdleIo
    /\ phys = IdlePhys
    /\ env = Env([raised : {FALSE}, dur : {0}], Prompt({NoOp, <<1, 1, TRUE>>}),
                 {"ControlPoint", "Ammo"}, {"loop"}, {FALSE})
    /\ \E f \in SpawnFields :
          InitGame(Settings__init__([BaseArgs EXCEPT !.end_condition = ENDGAME_NONE]).self,
                   f, FALSE)

SpecSpawn == InitSpawn /\ [][Next]_vars

\* C38 as stated: adding a fountain to the game during setup always
\* terminates, also when every position the fountain can choose lies in a
\* wall tile or outside the field: spawning gives up after the attempts of
\* spawn_one and setup() proceeds.
C38_AsStated ==
    [][ Setup => pc' \in {"ready", "raised"} ]_vars

(***************************************************************************)
(* The children list of a fountain (specification SpecFountain)            *)
(***************************************************************************)
\* the Ammo objects whose parent is fountain k and that are in game.objects
SpawnedInGame(k) ==
    { a \in DOMAIN ammos : ammos[a].parent = k /\ <<"Ammo", a>> \in Range(objects) }

\* the children list of every fountain holds exactly these, once each, and
\* at most MIN_CHILDREN of them
ChildrenInGame ==
    \A k \in DOMAIN fountains :
        LET c == fountains[k].children
        IN /\ Range(c) = SpawnedInGame(k)
           /\ Cardinality(Range(c)) = Len(c)
           /\ Len(c) <= MIN_CHILDREN

\* C39: after every operation on the objects (setup, the collide calls of a
\* pair, the updates of a step), hence at every step boundary, each
\* fountain's children list contains exactly the objects it spawned that are
\* still in game.objects, without duplicates, and never more than
\* MIN_CHILDREN of them; the operation that removes a child from the game
\* removes it from its parent's list.
C39_ChildrenLists ==
    [][ /\ ChildrenInGame'
        /\ \A a \in DOMAIN ammos :
              <<"Ammo", a>> \in Range(objects) /\ <<"Ammo", a>> \notin Range(objects')
                  => a \notin Range(fountains'[ammos[a].parent].children) ]_vars

\* the first child has been picked up and removed, and its replacement is
\* the fountain's only child
C39_Replaced ==
    /\ Len(ammos) >= 2
    /\ ammos[1].pickedup /\ <<"Ammo", 1>> \notin Range(objects)
    /\ fountains[ammos[1].parent].children = <<2>>
    /\ <<"Ammo", 2>> \in Range(objects)

(***************************************************************************)
(* Substeps of objects of either shape (specification SpecShapes)          *)
(***************************************************************************)
\* GameObject.__init__ (core.py 967-990) with the shape given: an object that
\* moves, is solid and collides as the class kind does
ShapedObject(kind, id, x, dx, shape) ==
    [PhysObject(kind, id, x, dx) EXCEPT !.shape = shape, !.solid = kind \in {"Tank", "Wall"}]

\* a movable object that stands or drives to the right by half a length, a
\* second one that stands or drives to the left or a solid object that cannot
\* be moved, and a third object that cannot be moved: solid, or an ammo pack,
\* a control point or a crumb; each of the three is a rectangle or a circle
InitShapes ==
    /\ ctor = IdleCtor
    /\ gen = IdleGen
    /\ sep = IdleSep
    /\ entity = NoEntity
    /\ io = IdleIo
    /\ env = Env({}, {}, {}, {}, {})
    /\ InitGame(BaseArgs, EmptyField, FALSE)
    /\ \E second \in {"Tank", "Wall"}, third \in {"Wall", "Ammo", "ControlPoint", "Crumb"},
          sh \in [1..3 -> {SHAPE_RECT, SHAPE_CIRC}],
          x1 \in 0..MaxPos, x2 \in 0..MaxPos, x3 \in 0..MaxPos,
          d1 \in {0, 1}, d2 \in {0, -1} :
          LET objs == << ShapedObject("Tank", 1, x1 * Half, d1 * Half, sh[1]),
                         ShapedObject(second, 2, x2 * Half,
                                      IF second = "Tank" THEN d2 * Half ELSE 0, sh[2]),
                         ShapedObject(third, 3, x3 * Half, 0, sh[3]) >>
              idx(m) == SelectSeq(<<1, 2, 3>>, LAMBDA i : objs[i].movable = m)
          IN phys = [IdlePhys EXCEPT
                       !.pc = "call", !.objs = objs,
                       !.mov = SortByKey(idx(TRUE), [i \in 1..3 |-> objs[i].x_]),
                       !.stat = SortByKey(idx(FALSE), [i \in 1..3 |-> objs[i].x_])]

SpecShapes == InitShapes /\ [][NextSubstep]_vars

\* C40: substep() never changes the position of a non-movable object (wall,
\* control point, ammo, crumb), for every shape combination of the colliding
\* pair and for either order in which compute_separation returns the two
\* objects; only movable objects are displaced by collision correction.
C40_StaticStay ==
    [][ \A i \in DOMAIN phys.objs :
          ~phys.objs[i].movable => Positions(phys'.objs)[i] = Positions(phys.objs)[i] ]_vars

\* an iteration has corrected two collisions with the same solid object that
\* cannot be moved: one returned with that object first, after the exchange
\* of a circle and a rectangle, and one returned with it second
C40_BothOrders ==
    /\ phys.pc = "loop"
    /\ \E m, n \in DOMAIN phys.collisions :
          LET c == phys.collisions[m]
              d == phys.collisions[n]
          IN /\ c.p >= Unit /\ d.p >= Unit
             /\ ~phys.objs[c.o1].movable /\ phys.objs[c.o2].moved
             /\ phys.objs[c.o1].shape # phys.objs[c.o2].shape
             /\ phys.objs[d.o1].moved /\ ~phys.objs[d.o2].movable
             /\ c.o1 = d.o2

====
